---------------------------- MODULE Spec2Model ----------------------------
(***************************************************************************)
(* A model of pg3: the generic heuristic search engine of pg3/search.py    *)
(* (_run_heuristic_search, run_gbfs, run_astar, run_hill_climbing,         *)
(* run_policy_guided_astar) and the rule grounding and policy query code   *)
(* of pg3/utils.py (special_all_ground_rules, all_ground_ldl_rules,        *)
(* query_ldl).                                                             *)
(***************************************************************************)
EXTENDS Integers, Sequences, FiniteSets, TLC

(***************************************************************************)
(* Bounds of the model.                                                    *)
(***************************************************************************)
MaxH == 2
MaxBudget == 2

\* float("inf"): larger than every cost and priority the bounds allow.
Inf == 1000000

\* The search states (any hashable value in the code).
States == {1, 2, 3, 4}

VARIABLES
    \* ---- inputs of _run_heuristic_search --------------------------------
    initial_states,      \* Sequence[_S]
    goal_of,             \* check_goal: state -> BOOLEAN
    succ,                \* get_successors: state -> sequence of [child, cost]
    heur,                \* heuristic: state -> value
    algo,                \* "gbfs" (run_gbfs) or "astar" (run_astar)
    lazy_expansion,
    max_expansions,
    max_evals,
    timeout,             \* "finite" or "never"
    \* ---- state of _run_heuristic_search ---------------------------------
    pc,                  \* "roots", "loop", "expand", "returned_goal",
                         \* "returned_best", "assertion_error"
    nodes,               \* every _HeuristicSearchNode created, in creation order
    queue,               \* the heap: set of [priority, tiebreak, node]
    state_to_best_path_cost,
    best_node,           \* index in nodes, 0 is None
    best_node_priority,
    tiebreak,            \* next value of itertools.count()
    num_expansions,
    num_evals,
    node,                \* the node being expanded (index in nodes)
    idx,                 \* position in the successor generator / initial_states
    time_up,             \* time.perf_counter() - start_time >= timeout
    ret,                 \* the returned (states, actions), by _finish_plan
    cost_values,         \* the edge costs a first call of get_successors uses
    \* ---- inputs of run_hill_climbing ------------------------------------
    early_termination_heuristic_thresh,   \* <<>> is None, <<v>> is v
    enforced_depth,
    parallelize,
    sequential_result,   \* what an earlier call with parallelize=False on
                         \* the same inputs returned, <<>> when there is none
    \* ---- state of run_hill_climbing -------------------------------------
    cur_node,            \* index in nodes, 0 is None
    visited,
    best_heuristic,
    last_heuristic,
    heuristics,          \* the heuristic trace
    best_child_node,
    current_depth_nodes,
    all_best_heuristics,
    early_break,
    depth,
    successors_at_depth,
    pidx,                \* position in current_depth_nodes
    \* ---- inputs of run_policy_guided_astar ------------------------------
    policy,              \* state -> action, 0 is None
    valid_actions,       \* state -> the (action, cost) pairs, in order
    next_state,          \* state -> action -> state
    num_rollout_steps,
    rollout_step_cost,
    \* ---- result of run_policy_guided_astar ------------------------------
    state_seq,
    action_seq,
    \* ---- grounding and policy queries (utils.py) ------------------------
    ldl,                 \* the rules of the lifted decision list, in order
    objects,
    atoms,
    goal,
    special_cache,       \* lru_cache of special_all_ground_rules
    ldl_cache,           \* lru_cache of _cached_all_ground_ldl_rules
    call_log,            \* the calls made so far, with what they returned
    calls_left,          \* the number of calls the caller still makes
    \* ---- apply_operator (utils.py) --------------------------------------
    ground_op,           \* op: the delete and add effects of the operator
    set_objects,         \* the set objects that exist, by name, with their
                         \* elements; "atoms" is the set passed in
    new_atoms,           \* the set object the local new_atoms refers to
    effects_left,        \* the effects the running for loop has yet to visit
    apply_pc,
    \* ---- inputs of _run_policy_search (policy_search.py) ----------------
    search_method,
    heuristic_name,
    user_supplied_demos, \* TRUE when demos are supplied, FALSE is None
    max_rule_params,
    gbfs_max_expansions,
    initial_policy_strs, \* <<>> is None, <<l>> is the list l
    op_successors,       \* policy -> operator -> the children it generates
    rule_params,         \* policy -> len(rule.parameters) of each rule
    \* ---- state of _run_policy_search ------------------------------------
    trajectory_generator,\* the class of the generator created, "" before
    heuristic_cls,       \* the class of the heuristic created, "" before
    best_ldl             \* the returned policy, 0 before

searchCfg == <<initial_states, algo, lazy_expansion, max_expansions,
               max_evals, timeout>>
searchFns == <<goal_of, succ, heur, cost_values>>
searchSt == <<pc, nodes, queue, state_to_best_path_cost, best_node,
              best_node_priority, tiebreak, num_expansions, num_evals, node,
              idx, time_up, ret>>
hcCfg == <<early_termination_heuristic_thresh, enforced_depth, parallelize,
           sequential_result>>
hcSt == <<cur_node, visited, best_heuristic, last_heuristic, heuristics,
          best_child_node, current_depth_nodes, all_best_heuristics,
          early_break, depth, successors_at_depth, pidx>>
pgVars == <<policy, valid_actions, next_state, num_rollout_steps,
            rollout_step_cost, state_seq, action_seq>>
searchRun == <<queue, state_to_best_path_cost, best_node,
               best_node_priority, tiebreak, num_expansions, num_evals,
               node, time_up>>
groundVars == <<ldl, objects, atoms, goal, special_cache, ldl_cache,
                call_log, calls_left>>
applyVars == <<ground_op, set_objects, new_atoms, effects_left, apply_pc>>
psVars == <<search_method, heuristic_name, user_supplied_demos,
            max_rule_params, gbfs_max_expansions, initial_policy_strs,
            op_successors, rule_params, trajectory_generator, heuristic_cls,
            best_ldl>>
notSearch == <<hcCfg, hcSt, pgVars, groundVars, applyVars, psVars>>
notHC == <<searchRun, pgVars, groundVars, applyVars, psVars>>
vars == <<searchCfg, searchFns, searchSt, hcCfg, hcSt, pgVars, groundVars,
          applyVars, psVars>>

(***************************************************************************)
(* _HeuristicSearchNode, get_priority, the heap.                           *)
(***************************************************************************)
None == 0
NoResult == [states |-> <<>>, actions |-> <<>>]

HeuristicSearchNode(state, edge_cost, cumulative_cost, parent, action) ==
    [state |-> state, edge_cost |-> edge_cost,
     cumulative_cost |-> cumulative_cost, parent |-> parent,
     action |-> action]

\* get_successors(state): the (action, child_state, cost) triples, in order.
\* The action of the i-th triple of a state is its position i, unless the
\* successor function names its actions.
triples(sl) ==
    [i \in 1..Len(sl) |->
        [action |-> IF "action" \in DOMAIN sl[i] THEN sl[i].action ELSE i,
         child |-> sl[i].child, cost |-> sl[i].cost]]

get_successors(s) == triples(succ[s])

\* Line 133 (run_gbfs) and line 148 (run_astar): the priority of a node
\* whose state has heuristic value hv.
gbfs_priority(n, hv) == hv

astar_priority_without_cost(n, hv) == hv

astar_priority(n, hv) == hv + n.cumulative_cost

get_priority(n, hv) ==
    IF algo = "astar" THEN astar_priority(n, hv) ELSE gbfs_priority(n, hv)

\* The entry hq.heappop returns: least priority, then least tiebreak.
heap_min(q) ==
    CHOOSE e \in q : \A f \in q :
        \/ e.priority < f.priority
        \/ e.priority = f.priority /\ e.tiebreak <= f.tiebreak

heappush(q, priority, tb, n) ==
    q \cup {[priority |-> priority, tiebreak |-> tb, node |-> n]}

\* Lines 114-119 for a mutated helper: line 119 is missing, the state of
\* the root is not added.
RECURSIVE finish_states_without_root(_, _)
finish_states_without_root(ns, n) ==
    IF ns[n].parent = None THEN <<>>
    ELSE Append(finish_states_without_root(ns, ns[n].parent), ns[n].state)

RECURSIVE finish_states(_, _)
finish_states(ns, n) ==
    IF ns[n].parent = None THEN <<ns[n].state>>
    ELSE Append(finish_states(ns, ns[n].parent), ns[n].state)

RECURSIVE finish_actions(_, _)
finish_actions(ns, n) ==
    IF ns[n].parent = None THEN <<>>
    ELSE Append(finish_actions(ns, ns[n].parent), ns[n].action)

_finish_plan(ns, n) ==
    [states |-> finish_states(ns, n), actions |-> finish_actions(ns, n)]

(***************************************************************************)
(* The callbacks of the caller.  heuristic, get_successors and check_goal  *)
(* are pure functions of the state; heur, succ and goal_of hold the        *)
(* values they have returned so far (all of them, when the inputs are      *)
(* fixed at the start), and a first call on a state returns any value of   *)
(* the bounded sets.                                                       *)
(***************************************************************************)
\* The successor lists a first call of get_successors can return: up to
\* two edges, of a cost in cost_values, to other states among the first
\* three, in the order of the children.
Edge == [child : {1, 2, 3}, cost : cost_values]

SuccLists(s) ==
    {q \in UNION {[1..n -> Edge] : n \in {0, 1, 2}} :
        /\ \A i, j \in DOMAIN q : i < j => q[i].child < q[j].child
        /\ \A i \in DOMAIN q : q[i].child # s}

heuristic_values(s) ==
    IF s \in DOMAIN heur THEN {heur[s]} ELSE 0..MaxH

successor_lists(s) ==
    IF s \in DOMAIN succ THEN {succ[s]} ELSE SuccLists(s)

check_goal_values(s) ==
    IF s \in DOMAIN goal_of THEN {goal_of[s]} ELSE BOOLEAN

\* What the clock comparison time.perf_counter() - start_time >= timeout
\* can give: TRUE stays TRUE, and a timeout of "never" is not reached.
clock_values ==
    IF time_up THEN {TRUE}
    ELSE IF timeout = "finite" THEN {FALSE, TRUE} ELSE {FALSE}

remember(f, s, v) == IF s \in DOMAIN f THEN f ELSE f @@ (s :> v)

(***************************************************************************)
(* _run_heuristic_search, one action per loop iteration.                   *)
(***************************************************************************)
\* Lines 57-59: the root that becomes best_node.
better_root_last_wins(priority) ==
    best_node = None \/ priority <= best_node_priority

better_root(priority) ==
    best_node = None \/ priority < best_node_priority

\* Lines 53-62: one initial state per step, then the assertion.
PushRoot ==
    /\ pc = "roots"
    /\ IF idx > Len(initial_states)
       THEN /\ pc' = IF best_node = None THEN "assertion_error" ELSE "loop"
            /\ idx' = 0
            /\ UNCHANGED <<nodes, queue, best_node, best_node_priority,
                           tiebreak, num_evals, heur>>
       ELSE \E hv \in heuristic_values(initial_states[idx]) :
            LET root_node == HeuristicSearchNode(initial_states[idx], 0, 0,
                                                 None, None)
                root_priority == get_priority(root_node, hv)
                id == Len(nodes) + 1
            IN  /\ heur' = remember(heur, initial_states[idx], hv)
                /\ nodes' = Append(nodes, root_node)
                /\ IF better_root(root_priority)
                   THEN /\ best_node' = id
                        /\ best_node_priority' = root_priority
                   ELSE UNCHANGED <<best_node, best_node_priority>>
                /\ queue' = heappush(queue, root_priority, tiebreak, id)
                /\ tiebreak' = tiebreak + 1
                /\ num_evals' = num_evals + 1
                /\ idx' = idx + 1
                /\ pc' = pc
    /\ UNCHANGED <<state_to_best_path_cost, num_expansions, node, time_up,
                   ret, succ, goal_of, cost_values>>
    /\ UNCHANGED <<searchCfg, notSearch>>

\* Line 64 for a mutated condition: the loop stops at one queue entry.
loop_condition_above_one(t) ==
    /\ Cardinality(queue) > 1
    /\ ~t
    /\ num_expansions < max_expansions
    /\ num_evals < max_evals

\* Line 64: the loop condition, the clock reading t.
loop_condition(t) ==
    /\ queue # {}
    /\ ~t
    /\ num_expansions < max_expansions
    /\ num_evals < max_evals

is_stale_or_equal(n) ==
    state_to_best_path_cost[nodes[n].state] <= nodes[n].cumulative_cost

\* Line 68: a better path to the node's state was found since it was pushed.
is_stale(n) ==
    state_to_best_path_cost[nodes[n].state] < nodes[n].cumulative_cost

\* Line 72 for a mutated return: the plan of the best node, as at line 105.
best_plan(ns, popped) == _finish_plan(ns, best_node)

\* Line 72: the plan of the popped node.
goal_plan(ns, popped) == _finish_plan(ns, popped)

\* Lines 64-73 and 104-105: test the loop condition, pop, skip a stale
\* node, return at a goal, else start expanding.
Pop ==
    /\ pc = "loop"
    /\ \E t \in clock_values :
       /\ time_up' = t
       /\ IF ~loop_condition(t)
          THEN /\ pc' = "returned_best"
               /\ ret' = _finish_plan(nodes, best_node)
               /\ UNCHANGED <<queue, num_expansions, node, idx, succ,
                              goal_of>>
          ELSE LET e == heap_min(queue)
                   s == nodes[e.node].state
               IN  /\ queue' = queue \ {e}
                   /\ IF is_stale(e.node)
                      THEN UNCHANGED <<pc, ret, num_expansions, node, idx,
                                       succ, goal_of>>
                      ELSE \E g \in check_goal_values(s) :
                           /\ goal_of' = remember(goal_of, s, g)
                           /\ IF g
                              THEN /\ pc' = "returned_goal"
                                   /\ ret' = goal_plan(nodes, e.node)
                                   /\ UNCHANGED <<num_expansions, node, idx,
                                                  succ>>
                              ELSE \E sl \in successor_lists(s) :
                                   /\ succ' = remember(succ, s, sl)
                                   /\ num_expansions' = num_expansions + 1
                                   /\ node' = e.node
                                   /\ idx' = 1
                                   /\ pc' = "expand"
                                   /\ ret' = ret
    /\ UNCHANGED <<nodes, state_to_best_path_cost, best_node,
                   best_node_priority, tiebreak, num_evals, heur,
                   cost_values>>
    /\ UNCHANGED <<searchCfg, notSearch>>

\* Line 99 for a mutated push: the parent is left off the queue.
leave_parent_off(q, priority, tb, n) == q

\* Line 99: the parent goes back on the queue, with the child's priority.
push_parent_back(q, priority, tb, n) == heappush(q, priority, tb, n)

is_improvement_or_tie(priority) == priority <= best_node_priority

\* Line 92.
is_improvement(priority) == priority < best_node_priority

\* Lines 75-102: one iteration of the loop over the successors of node.
Successor ==
    /\ pc = "expand"
    /\ LET ss == get_successors(nodes[node].state)
       IN IF idx > Len(ss)
          THEN /\ pc' = "loop"
               /\ idx' = 0
               /\ UNCHANGED <<nodes, queue, state_to_best_path_cost,
                              best_node, best_node_priority, tiebreak,
                              num_evals, heur, time_up>>
          ELSE \E t \in clock_values :
               /\ time_up' = t
               /\ IF t
                  THEN /\ pc' = "loop"
                       /\ idx' = 0
                       /\ UNCHANGED <<nodes, queue, state_to_best_path_cost,
                                      best_node, best_node_priority,
                                      tiebreak, num_evals, heur>>
                  ELSE
                  LET child_state == ss[idx].child
                      cost == ss[idx].cost
                      child_path_cost == nodes[node].cumulative_cost + cost
                  IN IF state_to_best_path_cost[child_state]
                            <= child_path_cost
                     THEN /\ idx' = idx + 1
                          /\ UNCHANGED <<pc, nodes, queue,
                                         state_to_best_path_cost, best_node,
                                         best_node_priority, tiebreak,
                                         num_evals, heur>>
                     ELSE \E hv \in heuristic_values(child_state) :
                          LET child_node ==
                                  HeuristicSearchNode(child_state, cost,
                                      child_path_cost, node, ss[idx].action)
                              priority == get_priority(child_node, hv)
                              id == Len(nodes) + 1
                              better == is_improvement(priority)
                              lazy == better /\ lazy_expansion
                          IN  /\ heur' = remember(heur, child_state, hv)
                              /\ nodes' = Append(nodes, child_node)
                              /\ num_evals' = num_evals + 1
                              /\ state_to_best_path_cost' =
                                    [state_to_best_path_cost EXCEPT
                                        ![child_state] = child_path_cost]
                              /\ IF better
                                 THEN /\ best_node_priority' = priority
                                      /\ best_node' = id
                                 ELSE UNCHANGED <<best_node,
                                                  best_node_priority>>
                              /\ queue' =
                                    IF lazy
                                    THEN push_parent_back(
                                           heappush(queue, priority,
                                                    tiebreak, id),
                                           priority, tiebreak + 1, node)
                                    ELSE heappush(queue, priority,
                                                  tiebreak, id)
                              /\ tiebreak' = IF lazy THEN tiebreak + 2
                                             ELSE tiebreak + 1
                              /\ IF lazy \/ num_evals + 1 >= max_evals
                                 THEN pc' = "loop" /\ idx' = 0
                                 ELSE pc' = pc /\ idx' = idx + 1
    /\ UNCHANGED <<num_expansions, node, ret, succ, goal_of, cost_values>>
    /\ UNCHANGED <<searchCfg, notSearch>>

(***************************************************************************)
(* The runs of _run_heuristic_search that are checked.                     *)
(***************************************************************************)
\* max_expansions and max_evals: one of them small, or neither.
Budgets ==
    {<<Inf, Inf>>} \cup {<<b, Inf>> : b \in 1..MaxBudget}
                   \cup {<<Inf, b>> : b \in 1..MaxBudget + 1}

\* No run of run_hill_climbing.
HillClimbingUnused ==
    /\ early_termination_heuristic_thresh = <<>>
    /\ enforced_depth = 0
    /\ parallelize = FALSE
    /\ sequential_result = <<>>
    /\ cur_node = None
    /\ visited = {}
    /\ best_heuristic = Inf
    /\ last_heuristic = Inf
    /\ heuristics = <<>>
    /\ best_child_node = None
    /\ current_depth_nodes = <<>>
    /\ all_best_heuristics = <<>>
    /\ early_break = FALSE
    /\ depth = 0
    /\ successors_at_depth = <<>>
    /\ pidx = 0

\* No call of the grounding functions.
GroundingUnused ==
    /\ ldl = <<>>
    /\ objects = {}
    /\ atoms = {}
    /\ goal = {}
    /\ special_cache = <<>>
    /\ ldl_cache = <<>>
    /\ call_log = <<>>
    /\ calls_left = 0

\* No call of apply_operator.
ApplyUnused ==
    /\ ground_op = [delete_effects |-> {}, add_effects |-> {}]
    /\ set_objects = <<>>
    /\ new_atoms = ""
    /\ effects_left = {}
    /\ apply_pc = "unused"

\* No run of _run_policy_search.
PolicySearchUnused ==
    /\ search_method = ""
    /\ heuristic_name = ""
    /\ user_supplied_demos = FALSE
    /\ max_rule_params = 0
    /\ gbfs_max_expansions = 0
    /\ initial_policy_strs = <<>>
    /\ op_successors = <<>>
    /\ rule_params = <<>>
    /\ trajectory_generator = ""
    /\ heuristic_cls = ""
    /\ best_ldl = 0

\* No run of run_policy_guided_astar.
PolicyGuidedUnused ==
    /\ policy = <<>>
    /\ valid_actions = <<>>
    /\ next_state = <<>>
    /\ num_rollout_steps = 0
    /\ rollout_step_cost = 0
    /\ state_seq = <<>>
    /\ action_seq = <<>>

SearchStart ==
    /\ pc = "roots"
    /\ nodes = <<>>
    /\ queue = {}
    /\ state_to_best_path_cost = [s \in States |-> Inf]
    /\ best_node = None
    /\ best_node_priority = Inf
    /\ tiebreak = 0
    /\ num_expansions = 0
    /\ num_evals = 0
    /\ node = None
    /\ idx = 1
    /\ time_up = FALSE
    /\ ret = NoResult

InitSearch ==
    /\ initial_states \in {<<>>, <<1>>, <<1, 2>>}
    /\ algo \in {"gbfs", "astar"}
    /\ lazy_expansion \in BOOLEAN
    /\ \E b \in Budgets : max_expansions = b[1] /\ max_evals = b[2]
    /\ timeout \in {"finite", "never"}
    /\ timeout = "finite" =>
          /\ max_expansions = Inf /\ max_evals = Inf
          /\ initial_states = <<1>>
          /\ algo = "gbfs"
    /\ heur = <<>>
    /\ succ = <<>>
    /\ goal_of = <<>>
    /\ cost_values = {0, 1}
    /\ SearchStart
    /\ HillClimbingUnused
    /\ PolicyGuidedUnused
    /\ GroundingUnused
    /\ PolicySearchUnused
    /\ ApplyUnused

NextSearch == PushRoot \/ Pop \/ Successor

SpecSearch == InitSearch /\ [][NextSearch]_vars

(***************************************************************************)
(* run_astar on graphs that are known in full: the edges 1->2, 1->3, 2->3, *)
(* 3->2, 2->4, 3->4, each of cost 0, 1 or 2, the edges 1->3 and 3->2 also  *)
(* absent, state 4 the goal, and an admissible heuristic.                  *)
(***************************************************************************)
TemplateEdges == <<<<1, 2>>, <<1, 3>>, <<2, 3>>, <<3, 2>>, <<2, 4>>, <<3, 4>>>>
Absent == 3
TemplateCosts(i) == IF i \in {2, 4} THEN {0, 1, 2, Absent} ELSE {0, 1, 2}

\* The successor lists of the template under the edge costs w.
template_succ(w) ==
    [s \in States |->
        LET present == SelectSeq([i \in 1..Len(TemplateEdges) |-> i],
                LAMBDA i : TemplateEdges[i][1] = s /\ w[i] # Absent)
        IN  [k \in 1..Len(present) |->
                [child |-> TemplateEdges[present[k]][2],
                 cost |-> w[present[k]]]]]

Min(S) == CHOOSE x \in S : \A y \in S : x <= y

\* The cost of a cheapest path of at most k edges from s to a goal state.
RECURSIVE dist(_, _, _, _)
dist(sc, goals, s, k) ==
    IF s \in goals THEN 0
    ELSE IF k = 0 THEN Inf
    ELSE Min({Inf} \cup
             {LET d == dist(sc, goals, sc[s][i].child, k - 1)
              IN  IF d = Inf THEN Inf ELSE sc[s][i].cost + d :
                 i \in DOMAIN sc[s]})

\* The cost of a cheapest path from s to a goal state, Inf if there is none.
true_cost(sc, goals, s) == dist(sc, goals, s, Cardinality(States))

\* An admissible heuristic never overestimates the cost to a goal.
admissible(h, sc, goals) ==
    \A s \in States : h[s] <= true_cost(sc, goals, s)

goal_set == {g \in States : goal_of[g]}

\* The summed edge cost of a returned path.
RECURSIVE path_cost(_, _, _)
path_cost(states, actions, i) ==
    IF i > Len(actions) THEN 0
    ELSE succ[states[i]][actions[i]].cost + path_cost(states, actions, i + 1)

InitAstar ==
    /\ initial_states \in {<<1>>, <<1, 2>>}
    /\ algo = "astar"
    /\ lazy_expansion \in BOOLEAN
    /\ max_expansions = Inf
    /\ max_evals = Inf
    /\ timeout = "never"
    /\ goal_of = [s \in States |-> s = 4]
    /\ \E w \in [1..Len(TemplateEdges) -> {0, 1, 2, Absent}] :
          /\ \A i \in DOMAIN w : w[i] \in TemplateCosts(i)
          /\ succ = template_succ(w)
    /\ true_cost(succ, {4}, initial_states[1]) < Inf
    /\ \E h \in [States \ {4} -> 0..MaxH] : heur = h @@ (4 :> 0)
    /\ admissible(heur, succ, {4})
    /\ cost_values = {0, 1, 2}
    /\ SearchStart
    /\ HillClimbingUnused
    /\ PolicyGuidedUnused
    /\ GroundingUnused
    /\ PolicySearchUnused
    /\ ApplyUnused

SpecAstar == InitAstar /\ [][NextSearch]_vars

(***************************************************************************)
(* Properties of _run_heuristic_search.                                    *)
(***************************************************************************)
\* The priority the search computed for node i.
node_priority(i) == get_priority(nodes[i], heur[nodes[i].state])

\* The evaluated node of lowest priority, the earliest one on ties.
earliest_best ==
    CHOOSE i \in DOMAIN nodes : \A j \in DOMAIN nodes :
        \/ node_priority(i) < node_priority(j)
        \/ node_priority(i) = node_priority(j) /\ i <= j

\* C1: a search started with at least one initial state fails no assertion,
\* and when it stops without having popped a goal node (empty queue, or
\* max_expansions, max_evals or the timeout reached) it returns the path to
\* the node of lowest priority among all nodes it evaluated (roots and
\* pushed children), the earliest evaluated one on ties.
C1_ReturnsEarliestBest ==
    /\ initial_states # <<>> => pc # "assertion_error"
    /\ pc = "returned_best" =>
          ret = _finish_plan(nodes, earliest_best)

\* A search that stopped at an exhausted budget and returns a child, with
\* a later node of the same priority.
C1_Witness ==
    /\ pc = "returned_best"
    /\ queue # {}
    /\ nodes[best_node].parent # None
    /\ \E j \in DOMAIN nodes :
          j > best_node /\ node_priority(j) = node_priority(best_node)

\* C2: run_astar with an admissible heuristic, a reachable goal and budgets
\* that are not exhausted returns a path that ends in a goal state and
\* whose summed edge cost is the cost of a cheapest path from an initial
\* state to a goal, with lazy_expansion off and on.
C2_AstarOptimal ==
    /\ pc # "returned_best"
    /\ pc = "returned_goal" =>
          /\ goal_of[ret.states[Len(ret.states)]]
          /\ path_cost(ret.states, ret.actions, 1) =
                Min({true_cost(succ, goal_set, initial_states[i]) :
                        i \in DOMAIN initial_states})

\* A* returned a path of two edges that is cheaper than a path to the goal
\* found earlier, under lazy expansion and a heuristic that is not
\* consistent along the edge 1->2.
C2_Witness ==
    /\ pc = "returned_goal"
    /\ lazy_expansion
    /\ Len(ret.actions) >= 2
    /\ \E i \in DOMAIN nodes :
          /\ goal_of[nodes[i].state]
          /\ nodes[i].cumulative_cost > path_cost(ret.states, ret.actions, 1)
    /\ admissible(heur, succ, goal_set)
    /\ \E i \in DOMAIN succ[1] :
          heur[1] > succ[1][i].cost + heur[succ[1][i].child]

\* C26: the states and actions _run_heuristic_search returns satisfy
\* len(states) = len(actions) + 1, the first state is one of the initial
\* states, and every action with the state after it is a triple that
\* get_successors yielded for the state before it; with lazy_expansion on
\* or off, after a goal and after exhaustion.
C26_PathFollowsSuccessors ==
    pc \in {"returned_goal", "returned_best"} =>
        /\ Len(ret.states) = Len(ret.actions) + 1
        /\ \E i \in DOMAIN initial_states : initial_states[i] = ret.states[1]
        /\ \A i \in DOMAIN ret.actions :
               /\ ret.states[i] \in DOMAIN succ
               /\ \E k \in DOMAIN get_successors(ret.states[i]) :
                      /\ get_successors(ret.states[i])[k].action
                             = ret.actions[i]
                      /\ get_successors(ret.states[i])[k].child
                             = ret.states[i + 1]

\* A lazy search ran until its queue was empty and returns a path of two
\* actions, the first of which is not the first successor of its state.
C26_Witness ==
    /\ pc = "returned_best"
    /\ lazy_expansion
    /\ queue = {}
    /\ Len(ret.actions) = 2
    /\ ret.actions[1] = 2

\* get_successors has only been called on states of which check_goal was
\* false.
no_goal_is_expanded ==
    /\ \A s \in DOMAIN succ : s \in DOMAIN goal_of /\ ~goal_of[s]
    /\ pc = "expand" => nodes[node].state \in DOMAIN succ

\* The node that line 66 pops.
popped_node == heap_min(queue).node

\* A pop of a node that is not stale and whose state is a goal ends the
\* search with the path to that node, and nothing else ends it at a goal.
goal_pop_returns ==
    /\ (/\ pc = "loop"
        /\ queue' # queue
        /\ state_to_best_path_cost[nodes[popped_node].state]
               >= nodes[popped_node].cumulative_cost
        /\ nodes[popped_node].state \in DOMAIN goal_of'
        /\ goal_of'[nodes[popped_node].state])
           => /\ pc' = "returned_goal"
              /\ ret'.states = finish_states(nodes, popped_node)
              /\ ret'.actions = finish_actions(nodes, popped_node)
              /\ succ' = succ
    /\ (pc # "returned_goal" /\ pc' = "returned_goal")
           => /\ pc = "loop"
              /\ queue' = queue \ {heap_min(queue)}
              /\ goal_of'[nodes[popped_node].state]

\* C27: _run_heuristic_search never calls get_successors on a state of
\* which check_goal holds: the first popped node that is not stale and
\* whose state satisfies check_goal ends the search, and the returned path
\* ends at that node, also when a node of lower priority was seen before.
C27_GoalEndsSearch == []no_goal_is_expanded /\ [][goal_pop_returns]_vars

\* The search returned at a goal node although the best node seen, a node
\* that was expanded before, has a lower priority than the goal node.
C27_Witness ==
    /\ pc = "returned_goal"
    /\ \E n \in DOMAIN nodes :
          /\ ret.states = finish_states(nodes, n)
          /\ ret.actions = finish_actions(nodes, n)
          /\ n # best_node
          /\ node_priority(n) > best_node_priority
          /\ nodes[best_node].state \in DOMAIN succ

\* C15: of two search nodes of the same state the one created later has a
\* strictly lower cumulative cost (the root of an initial state is a node
\* of cost 0), so a generated path that is no cheaper than the best path
\* seen to its state is not pushed on the queue.
C15_LaterNodesAreCheaper ==
    \A i, j \in DOMAIN nodes :
        (i < j /\ nodes[i].state = nodes[j].state) =>
            nodes[j].cumulative_cost < nodes[i].cumulative_cost


\* C16: the number of expansions never exceeds max_expansions and the
\* number of priority evaluations never exceeds max_evals, for any number
\* of initial states, with lazy_expansion on and off.
C16_BudgetsAreKept ==
    /\ num_expansions <= max_expansions
    /\ num_evals <= max_evals


(***************************************************************************)
(* Lazy expansion: searches with lazy_expansion on and budgets that are    *)
(* never reached.  The function runs on from one statement to the next, so *)
(* a step that can be taken is taken.                                      *)
(***************************************************************************)
InitLazy ==
    /\ initial_states \in {<<1>>, <<1, 2>>}
    /\ algo \in {"gbfs", "astar"}
    /\ lazy_expansion = TRUE
    /\ max_expansions = Inf
    /\ max_evals = Inf
    /\ timeout = "never"
    /\ heur = <<>>
    /\ succ = <<>>
    /\ goal_of = <<>>
    /\ cost_values = {1}
    /\ SearchStart
    /\ HillClimbingUnused
    /\ PolicyGuidedUnused
    /\ GroundingUnused
    /\ PolicySearchUnused
    /\ ApplyUnused

SpecLazy == InitLazy /\ [][NextSearch]_vars /\ WF_vars(NextSearch)

\* The search is expanding a node of state s and has not gone past the
\* successor at position i of get_successors(s).
expanding_before(s, i) ==
    /\ pc = "expand"
    /\ nodes[node].state = s
    /\ i \in DOMAIN succ[s]
    /\ idx <= i

\* The loop of line 75 is at the successor at position i of state s.
generating(s, i) ==
    /\ pc = "expand"
    /\ nodes[node].state = s
    /\ idx = i
    /\ i \in DOMAIN succ[s]

\* Lines 92-100: a child that becomes best_node under lazy expansion ends
\* the expansion, and the parent is on the queue with the child's priority.
lazy_break ==
    (pc = "expand" /\ lazy_expansion /\ best_node' # best_node) =>
        /\ pc' = "loop"
        /\ [priority |-> best_node_priority', tiebreak |-> tiebreak' - 1,
            node |-> node] \in queue'
        /\ Len(nodes') = Len(nodes) + 1

\* C17 as stated: under lazy expansion a child of a priority strictly below
\* the best priority seen ends the expansion of its parent, which is pushed
\* back with the child's priority, and with budgets that are not exhausted
\* every successor of every expanded node is eventually generated.
C17_LazySiblingsGenerated ==
    /\ [][lazy_break]_vars
    /\ \A s \in States : \A i \in 1..2 :
          expanding_before(s, i) ~> generating(s, i)

\* C17, amended: the same, and every successor of every expanded node is
\* eventually generated unless the search returns at a goal node first.
C17_LazySiblingsGeneratedOrGoal ==
    /\ [][lazy_break]_vars
    /\ \A s \in States : \A i \in 1..2 :
          expanding_before(s, i) ~>
              (generating(s, i) \/ pc = "returned_goal")

\* The root is expanded again after it was pushed back, and the loop is at
\* its second successor, which the first expansion skipped.
C17_Witness ==
    /\ lazy_expansion
    /\ pc = "expand"
    /\ node = 1
    /\ num_expansions >= 2
    /\ idx = 2
    /\ Len(succ[nodes[node].state]) = 2
    /\ best_node # None
    /\ nodes[best_node].parent = 1
    /\ nodes[best_node].action = 1


(***************************************************************************)
(* Searches that no goal, budget or timeout ends: check_goal is false of   *)
(* every state, the edge costs are 0 and 1, so that the graph can have     *)
(* cycles of cost 0.  The loop of the search is sequential code that runs  *)
(* on as long as it has a next step, which is the weak fairness of its     *)
(* steps.                                                                   *)
(***************************************************************************)
InitNoGoal ==
    /\ initial_states = <<1>>
    /\ algo \in {"gbfs", "astar"}
    /\ lazy_expansion \in BOOLEAN
    /\ max_expansions = Inf
    /\ max_evals = Inf
    /\ timeout = "never"
    /\ heur = <<>>
    /\ succ = <<>>
    /\ goal_of = [s \in States |-> FALSE]
    /\ cost_values = {0, 1}
    /\ SearchStart
    /\ HillClimbingUnused
    /\ PolicyGuidedUnused
    /\ GroundingUnused
    /\ PolicySearchUnused
    /\ ApplyUnused

SpecNoGoal == InitNoGoal /\ [][NextSearch]_vars /\ WF_vars(NextSearch)

\* C28: on a finite graph with non-negative edge costs, a check_goal that
\* never holds and budgets that are never reached, _run_heuristic_search
\* terminates: the queue becomes empty and the search returns, and it
\* returns only then, with lazy_expansion off and on.
C28_SearchTerminates ==
    /\ <>(pc = "returned_best" /\ queue = {})
    /\ [](pc \in {"returned_best", "returned_goal"} => queue = {})

\* A lazy search has returned with an empty queue after it built two nodes
\* for one state, the second on a cheaper path.
C28_Witness ==
    /\ pc = "returned_best"
    /\ queue = {}
    /\ lazy_expansion
    /\ \E i, j \in DOMAIN nodes :
          /\ i < j
          /\ nodes[i].state = nodes[j].state
          /\ nodes[i].parent # None
          /\ nodes[j].cumulative_cost < nodes[i].cumulative_cost



(***************************************************************************)
(* run_hill_climbing.  The nodes live in the same store as the nodes of    *)
(* the heuristic search, and check_goal, get_successors and heuristic are   *)
(* the same lazily revealed callbacks.                                      *)
(***************************************************************************)
MaxDepth == 1

\* No run of _run_heuristic_search.
SearchUnused ==
    /\ algo = "gbfs"
    /\ lazy_expansion = FALSE
    /\ max_expansions = Inf
    /\ max_evals = Inf
    /\ timeout = "never"
    /\ queue = {}
    /\ state_to_best_path_cost = [s \in States |-> Inf]
    /\ best_node = None
    /\ best_node_priority = Inf
    /\ tiebreak = 0
    /\ num_expansions = 0
    /\ num_evals = 0
    /\ node = None
    /\ time_up = FALSE

\* Lines 193-194 for a mutated comparison: one above the threshold counts
\* as reaching it.
near_thresh(hv) ==
    /\ early_termination_heuristic_thresh # <<>>
    /\ hv <= early_termination_heuristic_thresh[1] + 1

reached_thresh(hv) ==
    /\ early_termination_heuristic_thresh # <<>>
    /\ hv <= early_termination_heuristic_thresh[1]

\* Lines 174-187, one initial state at a time.
HCRoot ==
    /\ pc = "hc_roots"
    /\ IF idx <= Len(initial_states)
       THEN \E hv \in heuristic_values(initial_states[idx]) :
              LET initial_state == initial_states[idx]
                  root_node == HeuristicSearchNode(initial_state, 0, 0,
                                                   None, <<>>)
                  better == cur_node = None \/ hv < best_heuristic
              IN /\ heur' = remember(heur, initial_state, hv)
                 /\ nodes' = Append(nodes, root_node)
                 /\ cur_node' = IF better THEN Len(nodes) + 1 ELSE cur_node
                 /\ best_heuristic' = IF better THEN hv ELSE best_heuristic
                 /\ visited' = visited \cup {initial_state}
                 /\ idx' = idx + 1
                 /\ UNCHANGED <<pc, last_heuristic, heuristics>>
       ELSE /\ last_heuristic' = best_heuristic
            /\ heuristics' = <<best_heuristic>>
            /\ pc' = IF cur_node = None THEN "assertion_error" ELSE "hc_step"
            /\ UNCHANGED <<heur, nodes, cur_node, best_heuristic, visited,
                           idx>>
    /\ UNCHANGED <<best_child_node, current_depth_nodes, all_best_heuristics,
                   early_break, depth, successors_at_depth, pidx>>
    /\ UNCHANGED <<goal_of, succ, cost_values, ret, hcCfg, searchCfg>>
    /\ UNCHANGED notHC

\* Lines 267-269: the plan of n, and the assertion on its length.
hc_return_pc(n, trace) ==
    IF Len(finish_states(nodes, n)) = Len(trace)
    THEN "hc_returned" ELSE "assertion_error"

\* Lines 190-204 and 209: the head of one step of the while loop.
HCStep ==
    /\ pc = "hc_step"
    /\ \E g \in check_goal_values(nodes[cur_node].state) :
         IF reached_thresh(last_heuristic)
         THEN /\ pc' = hc_return_pc(cur_node, heuristics)
              /\ ret' = _finish_plan(nodes, cur_node)
              /\ UNCHANGED <<goal_of, best_heuristic, best_child_node,
                             current_depth_nodes, all_best_heuristics,
                             early_break, depth, successors_at_depth, pidx,
                             idx>>
         ELSE /\ goal_of' = remember(goal_of, nodes[cur_node].state, g)
              /\ IF g
                 THEN /\ pc' = hc_return_pc(cur_node, heuristics)
                      /\ ret' = _finish_plan(nodes, cur_node)
                      /\ UNCHANGED <<best_heuristic, best_child_node,
                                     current_depth_nodes,
                                     all_best_heuristics, early_break, depth,
                                     successors_at_depth, pidx, idx>>
                 ELSE /\ best_heuristic' = Inf
                      /\ best_child_node' = None
                      /\ current_depth_nodes' = <<cur_node>>
                      /\ all_best_heuristics' = <<>>
                      /\ early_break' = FALSE
                      /\ depth' = 0
                      /\ successors_at_depth' = <<>>
                      /\ pidx' = 1
                      /\ idx' = 1
                      /\ pc' = "hc_children"
                      /\ UNCHANGED ret
    /\ UNCHANGED <<cur_node, visited, last_heuristic, heuristics, nodes,
                   heur, succ, cost_values, hcCfg, searchCfg>>
    /\ UNCHANGED notHC


\* Line 226 for a mutated comparison.
improves_best_or_ties(hv, bh) == hv <= bh

\* Line 226 (and 242): a child replaces the best child of the step.
improves_best(hv, bh) == hv < bh

\* Line 212 for a mutated test: only the states generated at this depth of
\* this step count as visited.
visited_at_this_depth(child_state) ==
    \E k \in DOMAIN successors_at_depth :
        nodes[successors_at_depth[k]].state = child_state

\* Line 212: child_state in visited.
already_visited(child_state) == child_state \in visited

\* Line 214 for a mutated statement: the child state is not added.
visited_kept(vis, child_state) == vis

\* Line 214: visited.add(child_state).
visited_add(vis, child_state) == vis \cup {child_state}

\* Lines 210-233: one iteration of the loop over the successors of the
\* parent at position pidx, or the move to the next parent.
HCChild ==
    /\ pc = "hc_children"
    /\ IF pidx > Len(current_depth_nodes)
       THEN /\ pc' = "hc_depth_end"
            /\ UNCHANGED <<succ, heur, nodes, visited, successors_at_depth,
                           best_heuristic, best_child_node, early_break,
                           pidx, idx>>
       ELSE \E sl \in successor_lists(nodes[current_depth_nodes[pidx]].state) :
              LET parent == current_depth_nodes[pidx]
                  ss == triples(sl)
              IN /\ succ' = remember(succ, nodes[parent].state, sl)
                 /\ pc' = pc
                 /\ IF idx > Len(ss)
                    THEN /\ pidx' = pidx + 1
                         /\ idx' = 1
                         /\ UNCHANGED <<heur, nodes, visited,
                                        successors_at_depth, best_heuristic,
                                        best_child_node, early_break>>
                    ELSE IF already_visited(ss[idx].child)
                    THEN /\ idx' = idx + 1
                         /\ UNCHANGED <<heur, nodes, visited,
                                        successors_at_depth, best_heuristic,
                                        best_child_node, early_break, pidx>>
                    ELSE LET child_state == ss[idx].child
                             child_node ==
                                 HeuristicSearchNode(child_state,
                                     ss[idx].cost,
                                     nodes[parent].cumulative_cost
                                         + ss[idx].cost,
                                     parent, ss[idx].action)
                             c == Len(nodes) + 1
                         IN /\ visited' = visited_add(visited, child_state)
                            /\ nodes' = Append(nodes, child_node)
                            /\ successors_at_depth' =
                                   Append(successors_at_depth, c)
                            /\ IF parallelize
                               THEN /\ idx' = idx + 1
                                    /\ UNCHANGED <<heur, best_heuristic,
                                                   best_child_node,
                                                   early_break, pidx>>
                               ELSE \E hv \in heuristic_values(child_state) :
                                      LET better ==
                                              improves_best(hv,
                                                            best_heuristic)
                                          bh == IF better THEN hv
                                                ELSE best_heuristic
                                      IN /\ heur' = remember(heur,
                                                        child_state, hv)
                                         /\ best_heuristic' = bh
                                         /\ best_child_node' =
                                                IF better THEN c
                                                ELSE best_child_node
                                         /\ IF reached_thresh(bh)
                                            THEN /\ early_break' = TRUE
                                                 /\ pidx' = pidx + 1
                                                 /\ idx' = 1
                                            ELSE /\ idx' = idx + 1
                                                 /\ UNCHANGED <<early_break,
                                                                pidx>>
    /\ UNCHANGED <<cur_node, last_heuristic, heuristics, current_depth_nodes,
                   all_best_heuristics, depth>>
    /\ UNCHANGED <<goal_of, cost_values, ret, hcCfg, searchCfg>>
    /\ UNCHANGED notHC

\* The values p.map can return for the heuristic of the nodes of ns: one
\* value for each state.
pool_map_values(ns) ==
    {f \in [{nodes[ns[k]].state : k \in DOMAIN ns} -> 0..MaxH] :
        \A s \in DOMAIN f : f[s] \in heuristic_values(s)}

\* Lines 240-244: the scan of the results of p.map, in the order of ns,
\* from position k; the result is the best heuristic and the best child.
RECURSIVE scan_results(_, _, _, _, _)
scan_results(ns, f, k, bh, bn) ==
    IF k > Len(ns) THEN <<bh, bn>>
    ELSE IF improves_best(f[nodes[ns[k]].state], bh)
         THEN scan_results(ns, f, k + 1, f[nodes[ns[k]].state], ns[k])
         ELSE scan_results(ns, f, k + 1, bh, bn)

\* Line 246 for a mutated comparison: any child counts as an improvement.
found_child(bh) == bh < Inf

\* Line 246 (and the negation of line 256).
found_improvement(bh) == last_heuristic > bh

\* Line 205 for a mutated range: one depth more than enforced_depth.
one_depth_more(d) == d <= enforced_depth

\* Line 205: range(0, enforced_depth + 1) has a depth after depth d.
has_next_depth(d) == d < enforced_depth

\* Lines 235-252: the end of one depth of the lookahead.
HCDepthEnd ==
    /\ pc = "hc_depth_end"
    /\ \E f \in pool_map_values(IF parallelize THEN successors_at_depth
                                ELSE <<>>) :
         LET best == IF parallelize
                     THEN scan_results(successors_at_depth, f, 1,
                                       best_heuristic, best_child_node)
                     ELSE <<best_heuristic, best_child_node>>
         IN /\ heur' = f @@ heur
            /\ best_heuristic' = best[1]
            /\ best_child_node' = best[2]
            /\ all_best_heuristics' = Append(all_best_heuristics, best[1])
            /\ IF found_improvement(best[1])
               THEN /\ pc' = "hc_step_end"
                    /\ UNCHANGED <<current_depth_nodes, depth,
                                   successors_at_depth, pidx, idx>>
               ELSE /\ current_depth_nodes' = successors_at_depth
                    /\ IF has_next_depth(depth)
                       THEN /\ depth' = depth + 1
                            /\ successors_at_depth' = <<>>
                            /\ pidx' = 1
                            /\ idx' = 1
                            /\ pc' = "hc_children"
                       ELSE /\ pc' = "hc_step_end"
                            /\ UNCHANGED <<depth, successors_at_depth, pidx,
                                           idx>>
    /\ UNCHANGED <<cur_node, visited, last_heuristic, heuristics,
                   early_break, nodes>>
    /\ UNCHANGED <<goal_of, succ, cost_values, ret, hcCfg, searchCfg>>
    /\ UNCHANGED notHC

\* Line 260 for a mutated update: one entry for each step.
append_best(trace, bests) == Append(trace, bests[Len(bests)])

\* Line 260: heuristics.extend(all_best_heuristics).
extend_trace(trace, bests) == trace \o bests

\* Lines 253-269: the end of one step of the while loop.
HCStepEnd ==
    /\ pc = "hc_step_end"
    /\ IF best_child_node = None \/ ~found_improvement(best_heuristic)
       THEN /\ pc' = hc_return_pc(cur_node, heuristics)
            /\ ret' = _finish_plan(nodes, cur_node)
            /\ UNCHANGED <<heuristics, cur_node, last_heuristic>>
       ELSE /\ heuristics' = extend_trace(heuristics, all_best_heuristics)
            /\ cur_node' = best_child_node
            /\ last_heuristic' = best_heuristic
            /\ IF early_break
               THEN /\ pc' = hc_return_pc(best_child_node,
                                          extend_trace(heuristics,
                                              all_best_heuristics))
                    /\ ret' = _finish_plan(nodes, best_child_node)
               ELSE /\ pc' = "hc_step"
                    /\ UNCHANGED ret
    /\ UNCHANGED <<visited, best_heuristic, best_child_node,
                   current_depth_nodes, all_best_heuristics, early_break,
                   depth, successors_at_depth, pidx, idx, nodes>>
    /\ UNCHANGED <<goal_of, succ, heur, cost_values, hcCfg, searchCfg>>
    /\ UNCHANGED notHC

Thresholds == {<<>>} \cup {<<v>> : v \in 0..1}

HillClimbingStart ==
    /\ pc = "hc_roots"
    /\ nodes = <<>>
    /\ idx = 1
    /\ ret = NoResult
    /\ cur_node = None
    /\ visited = {}
    /\ best_heuristic = Inf
    /\ last_heuristic = Inf
    /\ heuristics = <<>>
    /\ best_child_node = None
    /\ current_depth_nodes = <<>>
    /\ all_best_heuristics = <<>>
    /\ early_break = FALSE
    /\ depth = 0
    /\ successors_at_depth = <<>>
    /\ pidx = 0

InitHC ==
    /\ initial_states \in {<<>>, <<1>>, <<1, 2>>}
    /\ early_termination_heuristic_thresh \in Thresholds
    /\ enforced_depth \in 0..MaxDepth
    /\ parallelize \in BOOLEAN
    /\ sequential_result = <<>>
    /\ heur = <<>>
    /\ succ = <<>>
    /\ goal_of = <<>>
    /\ cost_values = {1}
    /\ HillClimbingStart
    /\ SearchUnused
    /\ PolicyGuidedUnused
    /\ GroundingUnused
    /\ PolicySearchUnused
    /\ ApplyUnused

NextHC == HCRoot \/ HCStep \/ HCChild \/ HCDepthEnd \/ HCStepEnd

SpecHC == InitHC /\ [][NextHC]_vars


(***************************************************************************)
(* The heuristic trace of run_hill_climbing.                               *)
(***************************************************************************)
non_increasing(trace) ==
    \A i \in 1..Len(trace) - 1 : trace[i + 1] <= trace[i]

last_at_most_first(trace) == trace[Len(trace)] <= trace[1]

\* C3 as stated: for every enforced_depth the heuristic trace returned by
\* run_hill_climbing is non-increasing from each entry to the next, and its
\* last entry is at most its first entry.
C3_TraceNonIncreasing ==
    pc = "hc_returned" =>
        non_increasing(heuristics) /\ last_at_most_first(heuristics)

\* C3, amended: the last entry of the returned trace is at most its first
\* entry for every enforced_depth, and the trace is non-increasing from each
\* entry to the next when enforced_depth is 0; with a deeper lookahead the
\* entries of the depths that found no improvement can exceed the entry
\* before them.
C3_TraceEndsNoHigher ==
    pc = "hc_returned" =>
        /\ last_at_most_first(heuristics)
        /\ enforced_depth = 0 => non_increasing(heuristics)

C3_Witness ==
    /\ pc = "hc_returned"
    /\ enforced_depth = 0
    /\ Len(heuristics) >= 3
    /\ Len(ret.states) = Len(heuristics)

(***************************************************************************)
(* The steps of run_hill_climbing.                                         *)
(***************************************************************************)
\* The states that had a node before the step that is about to end began:
\* the nodes of the step are the last nodes created.
visited_before_step(created) ==
    {nodes[j].state : j \in 1..(Len(nodes) - created)}

\* The positions of the successors of the current state that were not
\* visited before the step.
fresh_successors ==
    {i \in DOMAIN get_successors(nodes[cur_node].state) :
        get_successors(nodes[cur_node].state)[i].child
            \notin visited_before_step(Len(successors_at_depth))}

\* The fresh successor of lowest heuristic, the first generated on ties.
best_fresh_successor ==
    LET ss == get_successors(nodes[cur_node].state)
    IN  CHOOSE i \in fresh_successors : \A j \in fresh_successors :
            \/ heur[ss[i].child] < heur[ss[j].child]
            \/ heur[ss[i].child] = heur[ss[j].child] /\ i <= j

hill_climbing_step ==
    (/\ pc = "hc_step_end"
     /\ enforced_depth = 0
     /\ early_termination_heuristic_thresh = <<>>) =>
        LET ss == get_successors(nodes[cur_node].state)
        IN  IF /\ fresh_successors # {}
               /\ heur[ss[best_fresh_successor].child]
                      < heur[nodes[cur_node].state]
            THEN /\ pc' = "hc_step"
                 /\ cur_node' # cur_node
                 /\ nodes[cur_node'].parent = cur_node
                 /\ nodes[cur_node'].state = ss[best_fresh_successor].child
                 /\ nodes[cur_node'].action = ss[best_fresh_successor].action
            ELSE /\ pc' = "hc_returned"
                 /\ cur_node' = cur_node
                 /\ ret' = _finish_plan(nodes, cur_node)

\* C18: in run_hill_climbing with enforced_depth 0 and no threshold, a step
\* makes the successor of the current state of lowest heuristic among the
\* successors not visited before (the first generated on ties) the new
\* current node if and only if its heuristic is strictly lower than the
\* current node's, and otherwise the search stops and returns the path to
\* the current node.
C18_StepTakesBestSuccessor == [][hill_climbing_step]_vars

\* A step moved to a successor that ties with a successor generated after
\* it.
C18_Witness ==
    /\ enforced_depth = 0
    /\ early_termination_heuristic_thresh = <<>>
    /\ pc = "hc_step"
    /\ nodes[cur_node].parent # None
    /\ \E j \in DOMAIN nodes :
          /\ j > cur_node
          /\ nodes[j].parent = nodes[cur_node].parent
          /\ heur[nodes[j].state] = heur[nodes[cur_node].state]


\* The number of edges from node n up to its ancestor a, -1 when a is no
\* ancestor of n.
RECURSIVE edges_up_to(_, _)
edges_up_to(n, a) ==
    IF n = a THEN 0
    ELSE IF nodes[n].parent = None THEN -1
    ELSE LET up == edges_up_to(nodes[n].parent, a)
         IN  IF up < 0 THEN -1 ELSE up + 1

\* The nodes the current step generated at lookahead depth d: the
\* descendants of the current node d + 1 edges below it.
step_nodes_at(d) ==
    {n \in DOMAIN nodes : edges_up_to(n, cur_node) = d + 1}

lookahead_is_bounded ==
    /\ depth <= enforced_depth
    /\ (pc = "hc_children" /\ depth >= 1) =>
          \A d \in 0..(depth - 1) : \A n \in step_nodes_at(d) :
              /\ nodes[n].state \in DOMAIN heur
              /\ heur[nodes[n].state] >= last_heuristic

improvement_at_depth ==
    (pc = "hc_step_end" /\ cur_node' # cur_node) =>
        /\ cur_node' \in step_nodes_at(depth)
        /\ heur[nodes[cur_node'].state] < last_heuristic
        /\ Len(finish_states(nodes, cur_node'))
               = Len(finish_states(nodes, cur_node)) + depth + 1
        /\ Len(finish_actions(nodes, cur_node'))
               = Len(finish_actions(nodes, cur_node)) + depth + 1

\* C19: in a step of run_hill_climbing the lookahead depth d + 1 is
\* generated only when no node generated at the depths 0..d of the step has
\* a heuristic strictly below the current node's, no depth above
\* enforced_depth is generated, and when the improvement is found at depth d
\* the new current node is a node of depth d, so the path to the current
\* node grows by d + 1 states and d + 1 actions in that step.
C19_LookaheadDepth == []lookahead_is_bounded /\ [][improvement_at_depth]_vars

\* A step found its improvement at depth 1, after a depth 0 that did not
\* improve: the path grew by two states.
C19_Witness ==
    /\ pc = "hc_step"
    /\ depth = 1
    /\ nodes[cur_node].parent # None
    /\ nodes[nodes[cur_node].parent].parent # None
    /\ heur[nodes[nodes[cur_node].parent].state]
           >= heur[finish_states(nodes, cur_node)[1]]
    /\ Len(finish_states(nodes, cur_node)) = 3
    /\ Len(heuristics) = 3


step_nodes == {n \in DOMAIN nodes : edges_up_to(n, cur_node) >= 1}

\* The lookahead of the current step is complete: the current node and
\* every node generated less than enforced_depth + 1 edges below it had all
\* its successors generated or skipped as visited.
lookahead_complete ==
    \A n \in DOMAIN nodes :
        (edges_up_to(n, cur_node) \in 0..enforced_depth) =>
            /\ nodes[n].state \in DOMAIN succ
            /\ \A k \in DOMAIN succ[nodes[n].state] :
                   succ[nodes[n].state][k].child \in visited

\* No node of the complete lookahead of the current step is strictly better
\* than the current node.
no_improvement_found ==
    /\ lookahead_complete
    /\ \A n \in step_nodes :
           /\ nodes[n].state \in DOMAIN heur
           /\ heur[nodes[n].state] >= heur[nodes[cur_node].state]

current_at_threshold ==
    /\ early_termination_heuristic_thresh # <<>>
    /\ heur[nodes[cur_node].state] <= early_termination_heuristic_thresh[1]

goal_holds_of_current ==
    /\ nodes[cur_node].state \in DOMAIN goal_of
    /\ goal_of[nodes[cur_node].state]

\* C21: run_hill_climbing returns the path to the current node, and only
\* when the current node's heuristic is at most the threshold, or check_goal
\* holds of the current state, or the last step's lookahead up to
\* enforced_depth generated no node of strictly lower heuristic than the
\* current node's; and no successor is generated from a current node whose
\* state satisfies check_goal.
C21_ReturnsOnlyWhenDone ==
    /\ pc = "hc_returned" =>
          /\ ret = _finish_plan(nodes, cur_node)
          /\ \/ current_at_threshold
             \/ goal_holds_of_current
             \/ no_improvement_found
    /\ pc \in {"hc_children", "hc_depth_end", "hc_step_end"} =>
          /\ nodes[cur_node].state \in DOMAIN goal_of
          /\ ~goal_of[nodes[cur_node].state]
    /\ (pc # "hc_roots" /\ cur_node # None) =>
          \A n \in DOMAIN nodes : nodes[n].parent = cur_node =>
              /\ nodes[cur_node].state \in DOMAIN goal_of
              /\ ~goal_of[nodes[cur_node].state]

\* The search returned after a lookahead of two depths in which nodes were
\* generated at both depths and none improved on the current node, which is
\* neither a goal nor at the threshold.
C21_Witness ==
    /\ pc = "hc_returned"
    /\ enforced_depth = 1
    /\ early_termination_heuristic_thresh # <<>>
    /\ ~current_at_threshold
    /\ ~goal_holds_of_current
    /\ no_improvement_found
    /\ \E n \in step_nodes : edges_up_to(n, cur_node) = 2


(***************************************************************************)
(* run_hill_climbing on graphs over all four states, in which a lookahead  *)
(* level can hold two nodes and the level below it a node of either.  The  *)
(* successor function is fixed at the start; the heuristic and check_goal  *)
(* are revealed call by call as before.                                    *)
(***************************************************************************)
\* The list of edges of cost 1 to the states of the sequence cs.
edges_to(cs) == [i \in DOMAIN cs |-> [child |-> cs[i], cost |-> 1]]

WideGraphs ==
    {[s \in States |-> edges_to(IF s = 1 THEN c1 ELSE IF s = 2 THEN c2
                                ELSE IF s = 3 THEN c3 ELSE c4)] :
        c1 \in {<<2, 3>>, <<3, 2>>, <<2>>},
        c2 \in {<<>>, <<4>>, <<3>>},
        c3 \in {<<>>, <<4>>},
        c4 \in {<<>>, <<1>>}}

InitHCWide ==
    /\ initial_states \in {<<1>>, <<1, 4>>}
    /\ early_termination_heuristic_thresh \in Thresholds
    /\ enforced_depth \in 0..MaxDepth
    /\ parallelize \in BOOLEAN
    /\ sequential_result = <<>>
    /\ heur = <<>>
    /\ succ \in WideGraphs
    /\ goal_of = <<>>
    /\ cost_values = {1}
    /\ HillClimbingStart
    /\ SearchUnused
    /\ PolicyGuidedUnused
    /\ GroundingUnused
    /\ PolicySearchUnused
    /\ ApplyUnused

SpecHCWide == InitHCWide /\ [][NextHC]_vars

C25_TraceAsLongAsPath ==
    /\ pc = "hc_returned" => Len(ret.states) = Len(heuristics)
    /\ pc = "assertion_error" => cur_node = None
    /\ pc = "hc_step" =>
          Len(finish_states(nodes, cur_node)) = Len(heuristics)

\* The search returned a path of three states, the last two added by one
\* step that reached the threshold at lookahead depth 1.
C25_Witness ==
    /\ pc = "hc_returned"
    /\ depth = 1
    /\ early_break
    /\ Len(ret.states) = 3
    /\ Len(heuristics) = 3
    /\ Len(initial_states) = 2

\* run_hill_climbing is sequential code that runs on as long as it has a
\* next step: weak fairness of its steps.
SpecHCWideFair == InitHCWide /\ [][NextHC]_vars /\ WF_vars(NextHC)

\* A step that does not end the search has added a state to the visited
\* set: the set before the step, the states of the nodes built before it,
\* is a proper subset of the set after it.
step_adds_to_visited ==
    (pc = "hc_step_end" /\ pc' = "hc_step") =>
        LET before == visited_before_step(Cardinality(step_nodes))
        IN  /\ before \subseteq visited
            /\ before # visited
            /\ nodes[cur_node'].state \in visited \ before

\* C29: on a finite state space run_hill_climbing always terminates, for
\* every enforced_depth, successor function, heuristic and threshold: every
\* step that does not end the search adds at least one new state to the
\* visited set, which holds states of the state space only.
C29_HillClimbingTerminates ==
    /\ <>(pc = "hc_returned")
    /\ [][step_adds_to_visited]_vars
    /\ [](visited \subseteq States)

\* The search returned after two steps that each moved to a new state,
\* with every state of the state space visited.
C29_Witness ==
    /\ pc = "hc_returned"
    /\ visited = States
    /\ Len(ret.states) = 3
    /\ enforced_depth = 0
    /\ early_termination_heuristic_thresh = <<>>


(***************************************************************************)
(* Two calls of run_hill_climbing on the same inputs: the first with       *)
(* parallelize=False, the second with parallelize=True.  The callbacks are *)
(* deterministic: the second call gets the values the first call got.      *)
(***************************************************************************)
\* Lines 154-161: the call with parallelize=True, after the call with
\* parallelize=False has returned.
CallAgain ==
    /\ pc = "hc_returned"
    /\ ~parallelize
    /\ sequential_result = <<>>
    /\ sequential_result' = <<[states |-> ret.states,
                               actions |-> ret.actions,
                               heuristics |-> heuristics]>>
    /\ parallelize' = TRUE
    /\ pc' = "hc_roots"
    /\ nodes' = <<>>
    /\ idx' = 1
    /\ ret' = NoResult
    /\ cur_node' = None
    /\ visited' = {}
    /\ best_heuristic' = Inf
    /\ last_heuristic' = Inf
    /\ heuristics' = <<>>
    /\ best_child_node' = None
    /\ current_depth_nodes' = <<>>
    /\ all_best_heuristics' = <<>>
    /\ early_break' = FALSE
    /\ depth' = 0
    /\ successors_at_depth' = <<>>
    /\ pidx' = 0
    /\ UNCHANGED <<early_termination_heuristic_thresh, enforced_depth,
                   searchCfg, searchFns>>
    /\ UNCHANGED notHC

InitHCTwice ==
    /\ initial_states \in {<<1>>, <<1, 2>>}
    /\ early_termination_heuristic_thresh \in Thresholds
    /\ enforced_depth \in 0..MaxDepth
    /\ parallelize = FALSE
    /\ sequential_result = <<>>
    /\ heur = <<>>
    /\ succ = <<>>
    /\ goal_of = <<>>
    /\ cost_values = {1}
    /\ HillClimbingStart
    /\ SearchUnused
    /\ PolicyGuidedUnused
    /\ GroundingUnused
    /\ PolicySearchUnused
    /\ ApplyUnused

NextHCTwice ==
    HCRoot \/ HCStep \/ HCChild \/ HCDepthEnd \/ HCStepEnd \/ CallAgain

SpecHCTwice == InitHCTwice /\ [][NextHCTwice]_vars

\* The call with parallelize=True has returned what the call with
\* parallelize=False returned.
same_as_sequential ==
    /\ ret.states = sequential_result[1].states
    /\ ret.actions = sequential_result[1].actions
    /\ heuristics = sequential_result[1].heuristics

\* C23: for a deterministic heuristic, run_hill_climbing with
\* parallelize=True returns the same states, actions and heuristic trace as
\* with parallelize=False on the same inputs, for every enforced_depth and
\* every early_termination_heuristic_thresh, a threshold that a generated
\* child reaches included.
C23_ParallelSameAsSequential ==
    (pc = "hc_returned" /\ sequential_result # <<>>) => same_as_sequential



(***************************************************************************)
(* run_policy_guided_astar: run_astar over the successors that roll out    *)
(* the policy, then the reconstruction of the dense sequences.             *)
(***************************************************************************)
MaxRollout == 2
Actions == {1, 2}

get_valid_actions(s) == valid_actions[s]
get_next_state(s, a) == next_state[s][a]

\* Line 314 for a mutated yield: only the last action of the rollout.
yielded_last_action(policy_action_seq) ==
    <<policy_action_seq[Len(policy_action_seq)]>>

\* Line 314: list(policy_action_seq), a copy of the actions so far.
yielded_actions(policy_action_seq) == policy_action_seq

\* Line 309 for a mutated test: only None stops the rollout.
stops_on_none(action, valid) == action = None

\* Line 309: the rollout stops at this step.
rollout_stops(action, valid) == action = None \/ action \notin valid

\* Lines 306-314: the successors of the rollout that has k steps left.
RECURSIVE rollout(_, _, _, _)
rollout(policy_state, policy_action_seq, policy_cost, k) ==
    IF k = 0 THEN <<>>
    ELSE LET action == policy[policy_state]
             valid == {get_valid_actions(policy_state)[j].action :
                          j \in DOMAIN get_valid_actions(policy_state)}
         IN IF rollout_stops(action, valid) THEN <<>>
            ELSE LET nxt == get_next_state(policy_state, action)
                     sq == Append(policy_action_seq, action)
                     c == policy_cost + rollout_step_cost
                 IN <<[action |-> yielded_actions(sq), child |-> nxt,
                       cost |-> c]>> \o rollout(nxt, sq, c, k - 1)

\* Lines 317-319: the primitive successors.
primitive_successors(s) ==
    [j \in DOMAIN get_valid_actions(s) |->
        [action |-> <<get_valid_actions(s)[j].action>>,
         child |-> get_next_state(s, get_valid_actions(s)[j].action),
         cost |-> get_valid_actions(s)[j].cost]]

\* Lines 301-319: get_successors of run_policy_guided_astar.
pg_get_successors(s) ==
    rollout(s, <<>>, 0, num_rollout_steps) \o primitive_successors(s)

\* Lines 336-338: the flat action sequence.
RECURSIVE flat_actions(_)
flat_actions(action_subseqs) ==
    IF action_subseqs = <<>> THEN <<>>
    ELSE Head(action_subseqs) \o flat_actions(Tail(action_subseqs))

\* Lines 333-340: the dense states, from state, along the actions.
RECURSIVE dense_states(_, _)
dense_states(state, actions) ==
    IF actions = <<>> THEN <<state>>
    ELSE <<state>> \o dense_states(get_next_state(state, Head(actions)),
                                   Tail(actions))

\* Lines 330-342, after run_astar has returned.
Reconstruct ==
    /\ pc \in {"returned_goal", "returned_best"}
    /\ state_seq' = dense_states(ret.states[1], flat_actions(ret.actions))
    /\ action_seq' = flat_actions(ret.actions)
    /\ pc' = "pg_returned"
    /\ UNCHANGED <<policy, valid_actions, next_state, num_rollout_steps,
                   rollout_step_cost>>
    /\ UNCHANGED <<searchCfg, searchFns, hcCfg, hcSt, searchRun, nodes, idx,
                   ret, groundVars, applyVars, psVars>>

\* The transition functions: the first action moves one state up, the
\* second action moves two states up or back to state 1.
NextStateTables ==
    {[s \in States |-> [a \in Actions |->
        IF a = 1 THEN (IF s = 4 THEN 4 ELSE s + 1)
        ELSE IF back THEN 1 ELSE (IF s >= 3 THEN 4 ELSE s + 2)]] :
     back \in BOOLEAN}

\* The valid actions of a state, action a at cost a; none in state 4.
ValidActionLists(s) ==
    IF s = 4 THEN {<<>>}
    ELSE {<<>>, <<[action |-> 1, cost |-> 1]>>,
          <<[action |-> 2, cost |-> 2], [action |-> 1, cost |-> 1]>>}

InitPG ==
    /\ initial_states = <<1>>
    /\ algo = "astar"
    /\ lazy_expansion \in BOOLEAN
    /\ max_expansions \in {MaxBudget, Inf}
    /\ max_evals = Inf
    /\ timeout = "never"
    /\ policy \in [States -> Actions \cup {None}]
    /\ policy[4] = None
    /\ valid_actions \in [States -> UNION {ValidActionLists(s) : s \in States}]
    /\ \A s \in States : valid_actions[s] \in ValidActionLists(s)
    /\ next_state \in NextStateTables
    /\ num_rollout_steps \in 0..MaxRollout
    /\ rollout_step_cost \in {0, 1}
    /\ state_seq = <<>>
    /\ action_seq = <<>>
    /\ heur = [s \in States |-> IF 4 - s < MaxH THEN 4 - s ELSE MaxH]
    /\ goal_of = [s \in States |-> s = 4]
    /\ succ = [s \in States |-> pg_get_successors(s)]
    /\ cost_values = {0, 1, 2}
    /\ SearchStart
    /\ HillClimbingUnused
    /\ GroundingUnused
    /\ PolicySearchUnused
    /\ ApplyUnused

NextPG == PushRoot \/ Pop \/ Successor \/ Reconstruct

SpecPG == InitPG /\ [][NextPG]_vars

\* C4: run_policy_guided_astar returns state_seq and action_seq with
\* len(state_seq) = len(action_seq) + 1, state_seq starts at the first state
\* of the A* result, every next state is get_next_state of the state and
\* the action before it, the last state is the last state of the A* result,
\* and action_seq is the concatenation of the action subsequences of the A*
\* result in path order.
C4_DenseSequences ==
    pc = "pg_returned" =>
        /\ Len(state_seq) = Len(action_seq) + 1
        /\ state_seq[1] = ret.states[1]
        /\ \A k \in DOMAIN action_seq :
               state_seq[k + 1] = get_next_state(state_seq[k], action_seq[k])
        /\ state_seq[Len(state_seq)] = ret.states[Len(ret.states)]
        /\ action_seq = flat_actions(ret.actions)

C4_Witness ==
    /\ pc = "pg_returned"
    /\ Len(ret.actions) >= 2
    /\ \E k \in DOMAIN ret.actions : Len(ret.actions[k]) >= 2
    /\ Len(state_seq) > Len(ret.states)
    /\ goal_of[state_seq[Len(state_seq)]]

\* The state the policy reaches from s in j steps, whether or not its
\* actions are valid.
RECURSIVE policy_state_after(_, _)
policy_state_after(s, j) ==
    IF j = 0 THEN s
    ELSE LET before == policy_state_after(s, j - 1)
         IN  IF policy[before] = None THEN before
             ELSE next_state[before][policy[before]]

\* The policy proposes no action, or an action that is not valid, in the
\* state it reaches from s in j steps.
policy_fails_after(s, j) ==
    LET at == policy_state_after(s, j)
    IN  \/ policy[at] = None
        \/ \A i \in DOMAIN valid_actions[at] :
               valid_actions[at][i].action # policy[at]

\* The number of jump edges of s: the steps before the first step at which
\* the policy fails, num_rollout_steps at most.
jump_count(s) ==
    CHOOSE k \in 0..num_rollout_steps :
        /\ \A j \in 0..(k - 1) : ~policy_fails_after(s, j)
        /\ k < num_rollout_steps => policy_fails_after(s, k)

jump_edge(s, k) ==
    [action |-> [j \in 1..k |-> policy[policy_state_after(s, j - 1)]],
     child |-> policy_state_after(s, k),
     cost |-> k * rollout_step_cost]

single_action_edge(s, i) ==
    [action |-> <<valid_actions[s][i].action>>,
     child |-> next_state[s][valid_actions[s][i].action],
     cost |-> valid_actions[s][i].cost]

successors_are_jumps_then_actions(s) ==
    LET ss == get_successors(s)
        jumps == jump_count(s)
    IN  /\ Len(ss) = jumps + Len(valid_actions[s])
        /\ \A k \in 1..jumps : ss[k] = jump_edge(s, k)
        /\ \A i \in DOMAIN valid_actions[s] :
               ss[jumps + i] = single_action_edge(s, i)

\* C24: in run_policy_guided_astar the successors of a state are one jump
\* edge for each k from 1 to the number of rollout steps before the policy
\* returns None or an action that is not valid (num_rollout_steps at most),
\* labeled with the first k policy actions, leading to the state they reach
\* and of cost k * rollout_step_cost, followed by one single-action edge for
\* each valid action of the state at that action's cost; every node of the
\* search below a root is made from such an edge of its parent's state.
C24_JumpEdgesThenActions ==
    /\ \A s \in States : successors_are_jumps_then_actions(s)
    /\ \A n \in DOMAIN nodes : nodes[n].parent # None =>
           LET s == nodes[nodes[n].parent].state
           IN  \E e \in {jump_edge(s, k) : k \in 1..jump_count(s)}
                        \cup {single_action_edge(s, i) :
                                 i \in DOMAIN valid_actions[s]} :
                   /\ nodes[n].action = e.action
                   /\ nodes[n].state = e.child
                   /\ nodes[n].edge_cost = e.cost

\* The search made a node from the only jump edge of a state whose rollout
\* of two steps stopped at the second step, at an action of the policy that
\* is not valid there.
C24_Witness ==
    /\ num_rollout_steps = 2
    /\ \E n \in DOMAIN nodes :
          /\ nodes[n].parent # None
          /\ LET s == nodes[nodes[n].parent].state
             IN  /\ jump_count(s) = 1
                 /\ policy[policy_state_after(s, 1)] # None
                 /\ valid_actions[policy_state_after(s, 1)] # <<>>
                 /\ nodes[n].action = jump_edge(s, 1).action
                 /\ nodes[n].state = jump_edge(s, 1).child
                 /\ nodes[n].edge_cost = rollout_step_cost
                 /\ Len(get_successors(s)) >= 3



(***************************************************************************)
(* Grounding and policy queries (utils.py).  Objects and variables are     *)
(* names with a type; an atom is a predicate name applied to a tuple.      *)
(***************************************************************************)
MaxAssignments == 2
MaxCalls == 3

Range(q) == {q[k] : k \in DOMAIN q}

\* obj.type.name and var.type.name.
type_name(e) == IF e \in {"r", "?y"} THEN "robot" ELSE "block"

GroundAtom(predicate, objs) == [predicate |-> predicate, args |-> objs]
LiftedAtom(predicate, variables) == [predicate |-> predicate, args |-> variables]

LDLRule(name, parameters, pos, neg, goal_pre) ==
    [name |-> name, parameters |-> parameters,
     pos_state_preconditions |-> pos, neg_state_preconditions |-> neg,
     goal_preconditions |-> goal_pre]

\* pg3.structs: rule.ground(objects), and the ground operator of the
\* ground rule, named after the rule and applied to the same objects.
ground(rule, objs) == [rule |-> rule.name, objects |-> objs]
ground_operator(ground_rule) ==
    [name |-> ground_rule.rule, objects |-> ground_rule.objects]

\* Lines 92 and 112: pddlgym.structs.TypedEntity(name, Type(type.name)).
TypedEntity(e) == [name |-> e, var_type |-> type_name(e)]

\* pddlgym.structs.Literal(pred, largs), of a predicate name.
Literal(pred, negative, largs) ==
    [predicate |-> pred, negative |-> negative,
     variables |-> [k \in DOMAIN largs |-> TypedEntity(largs[k])]]

\* Line 130 for a mutated translation: the goal predicate keeps its name.
same_pred(name) == name

\* Lines 130 and 145: the predicate of a goal atom or goal precondition.
want_pred(name) == "WANT-" \o name

\* Lines 116-131: the conditions of the rule, as literals.
rule_literals(rule) ==
    {Literal(c.predicate, FALSE, c.args) : c \in rule.pos_state_preconditions}
    \cup
    {Literal(c.predicate, TRUE, c.args) : c \in rule.neg_state_preconditions}
    \cup
    {Literal(want_pred(c.predicate), FALSE, c.args) :
        c \in rule.goal_preconditions}

\* Lines 107-113: the keys of objects_to_pddlgym_typedentities.
atom_objects(ats) == UNION {Range(a.args) : a \in ats}

\* Line 141 (and 258): a goal atom about an object that is in no atom of
\* the state is not in the dictionary of line 107.
raises_KeyError(ats, goal_atoms) ==
    \E g \in goal_atoms : ~(Range(g.args) \subseteq atom_objects(ats))

\* Lines 134-146: the state and the goal, as literals.
state_literals(ats, goal_atoms) ==
    {Literal(a.predicate, FALSE, a.args) : a \in ats}
    \cup
    {Literal(want_pred(g.predicate), FALSE, g.args) : g \in goal_atoms}

(***************************************************************************)
(* pddlgym.inference.find_satisfying_assignments(kb, conds,                *)
(* max_assignment_count), by its contract: up to max_assignment_count      *)
(* distinct assignments of the variables of conds to entities of kb of the *)
(* same type, under which every positive literal of conds is in kb and no  *)
(* negative one is; which ones, and in which order, is not specified.      *)
(***************************************************************************)
literal_entities(lits) == UNION {Range(l.variables) : l \in lits}

substitute(lit, m) ==
    [predicate |-> lit.predicate, negative |-> FALSE,
     variables |-> [k \in DOMAIN lit.variables |-> m[lit.variables[k]]]]

satisfying_assignments(kb, conds) ==
    {m \in [literal_entities(conds) -> literal_entities(kb)] :
        /\ \A v \in DOMAIN m : m[v].var_type = v.var_type
        /\ \A c \in conds : (substitute(c, m) \in kb) = ~c.negative}

find_satisfying_assignments(kb, conds, max_assignment_count) ==
    LET sat == satisfying_assignments(kb, conds)
        n == IF Cardinality(sat) < max_assignment_count
             THEN Cardinality(sat) ELSE max_assignment_count
    IN {q \in [1..n -> sat] : \A j, k \in 1..n : j # k => q[j] # q[k]}


(***************************************************************************)
(* The two grounders.  A call ends in an outcome: the exception it raised  *)
(* or the list it returned.                                                *)
(***************************************************************************)
Returned(value) == [raised |-> "", value |-> value]
Raised(exception) == [raised |-> exception, value |-> <<>>]

\* Line 161 for a mutated choice: an object of the type of the variable.
typed_choice(var, objs) == {o \in objs : type_name(o) = type_name(var)}

\* Line 161 (and 278): np.random.choice(sorted(objects)).
random_choice(var, objs) == objs

\* Lines 152-161 (and 269-278): the final matchings of one assignment.
final_matchings(rule, pddlgym_assignment, objs) ==
    LET matched == {v.name : v \in DOMAIN pddlgym_assignment}
        params == Range(rule.parameters)
        bound == {pddlgym_assignment[v].name : v \in DOMAIN pddlgym_assignment}
    IN {fm \in [params -> objs \cup bound] :
          \A var \in params :
             IF var \in matched
             THEN fm[var] = pddlgym_assignment[TypedEntity(var)].name
             ELSE /\ Cardinality(matched) # Len(rule.parameters)
                  /\ fm[var] \in random_choice(var, objs)}

\* Lines 164-165 (and 281-282): the ground rules one assignment can give.
ground_rules_of(rule, pddlgym_assignment, objs) ==
    {ground(rule, [k \in DOMAIN rule.parameters |-> fm[rule.parameters[k]]]) :
        fm \in final_matchings(rule, pddlgym_assignment, objs)}

\* Lines 150-167: the lists of ground rules the assignments found can give.
ground_rule_lists(rule, found, objs) ==
    {q \in [DOMAIN found ->
              UNION {ground_rules_of(rule, found[k], objs) :
                        k \in DOMAIN found}] :
        \A k \in DOMAIN found :
            q[k] \in ground_rules_of(rule, found[k], objs)}

\* Lines 55-167: the outcomes of the body of special_all_ground_rules.
special_all_ground_rules(rule, objs, ats, goal_atoms, max_assignments) ==
    IF raises_KeyError(ats, goal_atoms) THEN {Raised("KeyError")}
    ELSE UNION {{Returned(q) : q \in ground_rule_lists(rule, found, objs)} :
                 found \in find_satisfying_assignments(
                             state_literals(ats, goal_atoms),
                             rule_literals(rule), max_assignments)}

\* Lines 187-199: the predicates _cached_all_ground_ldl_rules registers;
\* those of the goal preconditions are not among them.
registered_predicates(rule, ats, goal_atoms) ==
    {c.predicate : c \in ats \cup goal_atoms
                       \cup rule.pos_state_preconditions
                       \cup rule.neg_state_preconditions}

\* Lines 170-284: the outcomes of the body of _cached_all_ground_ldl_rules.
\* A goal precondition of an unregistered predicate stops at line 244, in
\* the debugger or on the unbound pred of line 247.
cached_all_ground_ldl_rules(rule, objs, static_predicates, ats, goal_atoms) ==
    IF \E c \in rule.goal_preconditions :
           c.predicate \notin registered_predicates(rule, ats, goal_atoms)
    THEN {Raised("set_trace")}
    ELSE IF raises_KeyError(ats, goal_atoms) THEN {Raised("KeyError")}
    ELSE UNION {{Returned(q) : q \in ground_rule_lists(rule, found, objs)} :
                 found \in find_satisfying_assignments(
                             state_literals(ats, goal_atoms),
                             rule_literals(rule), 1)}

\* functools.lru_cache for a mutated lookup: every call runs the body.
uncached_call(cache, key, outcomes) == outcomes

\* functools.lru_cache(maxsize=None), lines 54 and 169: a call with the
\* arguments of an earlier call that returned gives what that call returned.
cached_call(cache, key, outcomes) ==
    IF key \in DOMAIN cache THEN {cache[key]} ELSE outcomes

\* lru_cache stores what the body returned; an exception stores nothing.
cache_store(cache, key, outcome) ==
    IF outcome.raised # "" \/ key \in DOMAIN cache THEN cache
    ELSE (key :> outcome) @@ cache

\* The arguments of a call of special_all_ground_rules, as passed;
\* max_assignments is 0 when the caller leaves it out (the default, 1).
special_key(rule, max_assignments) ==
    <<rule.name, objects, atoms, goal, max_assignments>>

ldl_key(rule) == <<rule.name, objects, {}, atoms, goal>>

LogEntry(fn, rule_name, max_assignments, outcome) ==
    [fn |-> fn, rule |-> rule_name, max_assignments |-> max_assignments,
     raised |-> outcome.raised, value |-> outcome.value]


(***************************************************************************)
(* The calls: special_all_ground_rules, all_ground_ldl_rules and           *)
(* query_ldl, on the rules of ldl and the state (objects, atoms, goal).    *)
(***************************************************************************)
\* Lines 55-167, through the cache of line 54.
SpecialCall ==
    /\ calls_left > 0
    /\ \E k \in DOMAIN ldl, max_assignments \in 1..MaxAssignments :
         LET rule == ldl[k]
             key == special_key(rule, max_assignments)
         IN \E outcome \in cached_call(special_cache, key,
                              special_all_ground_rules(rule, objects, atoms,
                                                       goal, max_assignments)) :
              /\ special_cache' = cache_store(special_cache, key, outcome)
              /\ call_log' = Append(call_log,
                     LogEntry("special_all_ground_rules", rule.name,
                              max_assignments, outcome))
    /\ calls_left' = calls_left - 1
    /\ UNCHANGED <<ldl, objects, atoms, goal, ldl_cache>>
    /\ UNCHANGED <<searchCfg, searchFns, searchSt, hcCfg, hcSt, pgVars,
                   applyVars, psVars>>

\* Lines 30-52 and 170-284, through the cache of line 169.
AllGroundCall ==
    /\ calls_left > 0
    /\ \E k \in DOMAIN ldl :
         LET rule == ldl[k]
             key == ldl_key(rule)
         IN \E outcome \in cached_call(ldl_cache, key,
                              cached_all_ground_ldl_rules(rule, objects, {},
                                                          atoms, goal)) :
              /\ ldl_cache' = cache_store(ldl_cache, key, outcome)
              /\ call_log' = Append(call_log,
                     LogEntry("all_ground_ldl_rules", rule.name, 0, outcome))
    /\ calls_left' = calls_left - 1
    /\ UNCHANGED <<ldl, objects, atoms, goal, special_cache>>
    /\ UNCHANGED <<searchCfg, searchFns, searchSt, hcCfg, hcSt, pgVars,
                   applyVars, psVars>>

\* Lines 320-329 from rule k on, with get_all_valid_actions (lines
\* 296-301): the caches and outcomes the rest of the loop can end with.
\* A returned value is <<ground_op>>, or <<>> for None.
RECURSIVE query_ldl(_, _)
query_ldl(k, cache) ==
    IF k > Len(ldl) THEN {[cache |-> cache, outcome |-> Returned(<<>>)]}
    ELSE LET key == special_key(ldl[k], 0)
         IN UNION {
              IF o.raised # ""
              THEN {[cache |-> cache, outcome |-> o]}
              ELSE IF o.value # <<>>
              THEN {[cache |-> cache_store(cache, key, o),
                     outcome |-> Returned(<<ground_operator(o.value[1])>>)]}
              ELSE query_ldl(k + 1, cache_store(cache, key, o)) :
              o \in cached_call(cache, key,
                       special_all_ground_rules(ldl[k], objects, atoms,
                                                goal, 1))}

\* Lines 304-329.
QueryCall ==
    /\ calls_left > 0
    /\ \E r \in query_ldl(1, special_cache) :
         /\ special_cache' = r.cache
         /\ call_log' = Append(call_log,
                               LogEntry("query_ldl", "", 0, r.outcome))
    /\ calls_left' = calls_left - 1
    /\ UNCHANGED <<ldl, objects, atoms, goal, ldl_cache>>
    /\ UNCHANGED <<searchCfg, searchFns, searchSt, hcCfg, hcSt, pgVars,
                   applyVars, psVars>>

\* The rules: one precondition on ?x of each kind, or a positive and a
\* negative one, with the parameters ?x, or ?x and a ?y that no
\* precondition mentions.
RuleKinds == {"pos", "neg", "goal", "posneg"}

Rules ==
    {LDLRule(kind \o (IF n = 1 THEN "1" ELSE "2"),
             IF n = 1 THEN <<"?x">> ELSE <<"?x", "?y">>,
             IF kind \in {"pos", "posneg"}
                 THEN {LiftedAtom("ontable", <<"?x">>)} ELSE {},
             IF kind \in {"neg", "posneg"}
                 THEN {LiftedAtom("holding", <<"?x">>)} ELSE {},
             IF kind = "goal"
                 THEN {LiftedAtom("ontable", <<"?x">>)} ELSE {}) :
        kind \in RuleKinds, n \in {1, 2}}

Policies == {<<>>} \cup {<<r>> : r \in Rules} \cup (Rules \X Rules)

\* No run of the searches.
SearchesUnused ==
    /\ initial_states = <<>>
    /\ heur = <<>>
    /\ succ = <<>>
    /\ goal_of = <<>>
    /\ cost_values = {}
    /\ pc = "unused"
    /\ nodes = <<>>
    /\ idx = 1
    /\ ret = NoResult
    /\ SearchUnused
    /\ HillClimbingUnused
    /\ PolicyGuidedUnused
    /\ PolicySearchUnused

\* One call, in a process whose caches are empty.
InitGround ==
    /\ ldl \in Policies
    /\ objects \in {{"a", "b"}, {"a", "b", "r"}}
    /\ atoms \in SUBSET {GroundAtom("ontable", <<"a">>),
                         GroundAtom("ontable", <<"b">>),
                         GroundAtom("holding", <<"b">>)}
    /\ goal \in {{}, {GroundAtom("ontable", <<"a">>)},
                 {GroundAtom("ontable", <<"b">>)}}
    /\ special_cache = <<>>
    /\ ldl_cache = <<>>
    /\ call_log = <<>>
    /\ calls_left = 1
    /\ SearchesUnused
    /\ ApplyUnused

NextGround == SpecialCall \/ AllGroundCall \/ QueryCall

SpecGround == InitGround /\ [][NextGround]_vars


\* Several calls in one process: the caches live across the calls.
InitCache ==
    /\ ldl \in {<<r1, r2>> \in Rules \X Rules :
                   /\ r1.name \in {"pos2", "goal2"}
                   /\ r2.name \in {"pos1", "neg2"}}
    /\ objects = {"a", "r"}
    /\ atoms \in {{GroundAtom("ontable", <<"a">>)},
                  {GroundAtom("ontable", <<"a">>),
                   GroundAtom("holding", <<"a">>)}}
    /\ goal \in {{}, {GroundAtom("ontable", <<"a">>)}}
    /\ special_cache = <<>>
    /\ ldl_cache = <<>>
    /\ call_log = <<>>
    /\ calls_left = MaxCalls
    /\ SearchesUnused
    /\ ApplyUnused

SpecCache == InitCache /\ [][NextGround]_vars

(***************************************************************************)
(* What the rules mean: a grounding of a rule binds every parameter to an  *)
(* object of objects of the type of the parameter, and it is satisfying    *)
(* when the positive preconditions are in atoms, the negative ones are     *)
(* not, and the goal preconditions are in goal.                            *)
(***************************************************************************)
rule_named(name) == CHOOSE r \in Rules : r.name = name

ground_atom(c, rule, objs) ==
    GroundAtom(c.predicate,
               [k \in DOMAIN c.args |->
                   objs[CHOOSE n \in DOMAIN rule.parameters :
                            rule.parameters[n] = c.args[k]]])

preconditions_hold(rule, objs) ==
    /\ \A c \in rule.pos_state_preconditions :
           ground_atom(c, rule, objs) \in atoms
    /\ \A c \in rule.neg_state_preconditions :
           ground_atom(c, rule, objs) \notin atoms
    /\ \A c \in rule.goal_preconditions :
           ground_atom(c, rule, objs) \in goal

type_consistent(rule, objs) ==
    \A k \in DOMAIN rule.parameters :
        type_name(objs[k]) = type_name(rule.parameters[k])

type_consistent_groundings(rule) ==
    {objs \in [DOMAIN rule.parameters -> objects] :
        type_consistent(rule, objs)}

satisfying_groundings(rule) ==
    {objs \in type_consistent_groundings(rule) :
        preconditions_hold(rule, objs)}

calls_of(fn) == {k \in DOMAIN call_log : call_log[k].fn = fn}

\* C5: query_ldl returns the ground action of the earliest rule of the
\* list that has a satisfying grounding, whatever the rules after it are.
C5_EarliestSatisfiableRule ==
    \A n \in calls_of("query_ldl"), k \in DOMAIN ldl :
        (/\ satisfying_groundings(ldl[k]) # {}
         /\ \A j \in 1..k - 1 : satisfying_groundings(ldl[j]) = {})
        => /\ call_log[n].raised = ""
           /\ \E objs \in satisfying_groundings(ldl[k]) :
                  call_log[n].value =
                      <<ground_operator(ground(ldl[k], objs))>>

\* C6: when no rule of the policy has a satisfying grounding (the empty
\* policy included), query_ldl returns None and raises no exception.
C6_NoRuleGivesNone ==
    \A n \in calls_of("query_ldl") :
        (\A k \in DOMAIN ldl : satisfying_groundings(ldl[k]) = {})
        => call_log[n].raised = "" /\ call_log[n].value = <<>>

\* C7: every ground rule special_all_ground_rules returns, and every action
\* query_ldl returns, comes from a binding under which the positive
\* preconditions are in atoms, the negative ones are not, and the goal
\* preconditions are in goal; at most max_assignments ground rules are
\* returned.
C7_GroundRulesSatisfy ==
    /\ \A n \in calls_of("special_all_ground_rules") :
           /\ Len(call_log[n].value) <= call_log[n].max_assignments
           /\ \A g \in Range(call_log[n].value) :
                  /\ g.rule = call_log[n].rule
                  /\ preconditions_hold(rule_named(g.rule), g.objects)
    /\ \A n \in calls_of("query_ldl") :
           \A op \in Range(call_log[n].value) :
               /\ \E k \in DOMAIN ldl : ldl[k].name = op.name
               /\ preconditions_hold(rule_named(op.name), op.objects)

C7_Witness ==
    \E n \in calls_of("special_all_ground_rules") :
        /\ call_log[n].max_assignments = 1
        /\ Len(call_log[n].value) = 1
        /\ call_log[n].rule = "posneg2"
        /\ goal # {}
        /\ \E o \in objects :
               /\ GroundAtom("ontable", <<o>>) \in atoms
               /\ GroundAtom("holding", <<o>>) \in atoms

\* C8: every ground rule either grounder returns binds each parameter to an
\* object of the type of the parameter, the parameters that no precondition
\* constrains included.
C8_TypeConsistentBindings ==
    \A n \in calls_of("special_all_ground_rules")
              \cup calls_of("all_ground_ldl_rules") :
        \A g \in Range(call_log[n].value) :
            type_consistent(rule_named(g.rule), g.objects)

\* The order of the object names, and the lexicographic order of tuples.
name_rank(o) == IF o = "a" THEN 1 ELSE IF o = "b" THEN 2 ELSE 3

lex_less(t, u) ==
    \E k \in DOMAIN t :
        /\ name_rank(t[k]) < name_rank(u[k])
        /\ \A j \in 1..k - 1 : t[j] = u[j]

\* C9: all_ground_ldl_rules returns the complete list of the type-consistent
\* groundings of the rule, in lexicographic order; stated for the calls in
\* which every type-consistent grounding satisfies the preconditions, as
\* for ?x of type block and the blocks a and b, both on the table.
C9_CompleteInOrder ==
    \A n \in calls_of("all_ground_ldl_rules") :
        LET rule == rule_named(call_log[n].rule)
            value == call_log[n].value
        IN (/\ call_log[n].raised = ""
            /\ satisfying_groundings(rule) = type_consistent_groundings(rule))
           => /\ {g.objects : g \in Range(value)} =
                     type_consistent_groundings(rule)
              /\ \A j, k \in DOMAIN value :
                     j < k => lex_less(value[j].objects, value[k].objects)

\* C10: two calls of all_ground_ldl_rules with the same rule, objects,
\* static predicates, atoms and goal atoms return the same list, whatever
\* is called in between, also for a rule with a parameter that no
\* precondition constrains.
C10_SameArgumentsSameList ==
    \A j, k \in calls_of("all_ground_ldl_rules") :
        (/\ call_log[j].rule = call_log[k].rule
         /\ call_log[j].raised = ""
         /\ call_log[k].raised = "")
        => call_log[j].value = call_log[k].value

C10_Witness ==
    /\ Len(call_log) = 3
    /\ call_log[1].fn = "all_ground_ldl_rules"
    /\ call_log[3].fn = "all_ground_ldl_rules"
    /\ call_log[1].rule = "pos2"
    /\ call_log[3].rule = "pos2"
    /\ call_log[1].value # <<>>
    /\ call_log[3].value # <<>>
    /\ call_log[2].fn = "special_all_ground_rules"
    /\ call_log[2].rule = "pos2"
    /\ call_log[2].value # <<>>
    /\ call_log[2].value[1] # call_log[1].value[1]
    /\ ~type_consistent(rule_named("pos2"), call_log[1].value[1].objects)


(***************************************************************************)
(* _run_policy_search (policy_search.py): the search over the policies.    *)
(* A policy is one of States, policy 1 the empty decision list.  The edit  *)
(* operators and the heuristic are the caller's strategies: op_successors  *)
(* holds the children each operator generates, rule_params the number of   *)
(* parameters of each rule of a policy, and the score of a policy is the   *)
(* lazily revealed heur of the searches.                                   *)
(***************************************************************************)
\* Line 142: LiftedDecisionList([]).
EmptyLDL == 1

\* Lines 187-196: the operator classes, in the order of the list.
SearchOperators ==
    <<"_AddRulePG3SearchOperator", "_AddConditionPG3SearchOperator">>

\* Lines 203-208.
heuristic_name_to_cls ==
    [n \in {"policy_evaluation", "demo_plan_comparison", "policy_guided"} |->
        IF n = "policy_evaluation" THEN "_PolicyEvaluationPG3Heuristic"
        ELSE "_PlanComparisonPG3Heuristic"]

\* Lines 221-227.
_create_trajectory_generator(name, demos) ==
    IF name = "policy_guided" THEN "_PolicyGuidedPlanningTrajectoryGenerator"
    ELSE IF demos THEN "_UserSuppliedDemoTrajectoryGenerator"
    ELSE "_StaticPlanningTrajectoryGenerator"

\* Lines 152-154 for a mutated comparison.
reaches_max_rule_params(child) ==
    \E r \in DOMAIN rule_params[child] :
        rule_params[child][r] >= max_rule_params

\* Lines 152-154: any(len(rule.parameters) > max_rule_params ...).
exceeds_max_rule_params(child) ==
    \E r \in DOMAIN rule_params[child] :
        rule_params[child][r] > max_rule_params

\* Lines 151-156: what get_successors yields for the operator at position
\* op, the children numbered from 0.
op_yields(pol, op) ==
    LET children == op_successors[pol][op]
        edges == [i \in DOMAIN children |->
                     [action |-> <<SearchOperators[op], i - 1>>,
                      child |-> children[i], cost |-> 1]]
    IN  SelectSeq(edges, LAMBDA e : ~exceeds_max_rule_params(e.child))

\* Lines 149-156: get_successors of _run_policy_search.
RECURSIVE policy_get_successors(_, _)
policy_get_successors(pol, op) ==
    IF op > Len(SearchOperators) THEN <<>>
    ELSE op_yields(pol, op) \o policy_get_successors(pol, op + 1)

\* Lines 141-147: a policy string stands for the policy it parses to.
parse_ldl_from_str(l) == l

\* Lines 127-156: the trajectory generator, the operators, the heuristic
\* (a KeyError for a name that is not a key of line 203), the initial
\* policies and the successor function.
Configure ==
    /\ pc = "ps_configure"
    /\ trajectory_generator' =
          _create_trajectory_generator(heuristic_name, user_supplied_demos)
    /\ IF heuristic_name \notin DOMAIN heuristic_name_to_cls
       THEN /\ pc' = "KeyError"
            /\ UNCHANGED <<heuristic_cls, initial_states, succ>>
       ELSE /\ heuristic_cls' = heuristic_name_to_cls[heuristic_name]
            /\ initial_states' =
                  IF initial_policy_strs = <<>> THEN <<EmptyLDL>>
                  ELSE [i \in DOMAIN initial_policy_strs[1] |->
                           parse_ldl_from_str(initial_policy_strs[1][i])]
            /\ succ' = [s \in States |-> policy_get_successors(s, 1)]
            /\ pc' = "ps_dispatch"
    /\ UNCHANGED <<search_method, heuristic_name, user_supplied_demos,
                   max_rule_params, gbfs_max_expansions, initial_policy_strs,
                   op_successors, rule_params, best_ldl>>
    /\ UNCHANGED <<algo, lazy_expansion, max_expansions, max_evals, timeout,
                   goal_of, heur, cost_values>>
    /\ UNCHANGED <<nodes, idx, ret, hcCfg, hcSt, searchRun, pgVars,
                   groundVars, applyVars>>

\* Lines 169-172: run_policy_hill_climb is not a function of search.py; it
\* is taken to be hill climbing without lookahead and without a goal, up to
\* the threshold it is given.
run_policy_hill_climb(thresh) ==
    /\ pc' = "hc_roots"
    /\ early_termination_heuristic_thresh' = <<thresh>>
    /\ UNCHANGED <<enforced_depth, parallelize, sequential_result, algo,
                   lazy_expansion,
                   max_expansions>>

\* Lines 160-165.
run_gbfs(expansions, lazy) ==
    /\ pc' = "roots"
    /\ algo' = "gbfs"
    /\ max_expansions' = expansions
    /\ lazy_expansion' = lazy
    /\ UNCHANGED hcCfg

\* Lines 158-176: the search method.
Dispatch ==
    /\ pc = "ps_dispatch"
    /\ IF search_method = "gbfs"
       THEN /\ run_gbfs(gbfs_max_expansions, TRUE)
            /\ goal_of' = [s \in States |-> FALSE]
       ELSE IF search_method = "hill_climbing"
       THEN /\ run_policy_hill_climb(0)
            /\ goal_of' = [s \in States |-> FALSE]
       ELSE /\ pc' = "NotImplementedError"
            /\ UNCHANGED <<goal_of, hcCfg, algo, lazy_expansion,
                           max_expansions>>
    /\ UNCHANGED <<initial_states, max_evals, timeout, succ, heur,
                   cost_values>>
    /\ UNCHANGED <<nodes, idx, ret, hcSt, searchRun, pgVars, groundVars,
                   applyVars, psVars>>

\* Line 179 for a mutated index.
first_of_path(path) == path[1]

\* Line 179: path[-1].
last_of_path(path) == path[Len(path)]

\* Lines 178-180, after the search has returned.
ReturnBest ==
    /\ pc \in {"returned_goal", "returned_best", "hc_returned"}
    /\ best_ldl' = last_of_path(ret.states)
    /\ pc' = "ps_returned"
    /\ UNCHANGED <<search_method, heuristic_name, user_supplied_demos,
                   max_rule_params, gbfs_max_expansions, initial_policy_strs,
                   op_successors, rule_params, trajectory_generator,
                   heuristic_cls>>
    /\ UNCHANGED <<searchCfg, searchFns, hcCfg, hcSt, searchRun, nodes, idx,
                   ret, pgVars, groundVars, applyVars>>

\* The children of the two operators: every edit makes a larger policy.
OperatorTables ==
    {[s \in States |->
        IF s = 1 THEN IF wide THEN <<<<2, 3>>, <<>>>> ELSE <<<<2>>, <<3, 4>>>>
        ELSE IF s = 2 THEN IF wide THEN <<<<4>>, <<3>>>> ELSE <<<<3>>, <<4>>>>
        ELSE IF s = 3 THEN IF wide THEN <<<<4>>, <<>>>> ELSE <<<<>>, <<4>>>>
        ELSE <<<<>>, <<>>>>] : wide \in BOOLEAN}

\* The parameter counts of the rules of each policy.
RuleParamTables ==
    {[s \in States |->
        IF s = 1 THEN <<>>
        ELSE IF s = 2 THEN <<1>>
        ELSE IF s = 3 THEN <<1, big>>
        ELSE <<2, 1, 1>>] : big \in {1, 2, 3}}

SearchMethods == {"gbfs", "hill_climbing"}

InitPolicySearch ==
    /\ search_method \in SearchMethods \cup {"beam"}
    /\ heuristic_name \in DOMAIN heuristic_name_to_cls \cup {"lmcut"}
    /\ user_supplied_demos \in BOOLEAN
    /\ max_rule_params \in {1, 2}
    /\ gbfs_max_expansions \in 0..MaxBudget
    /\ initial_policy_strs \in {<<>>, <<<<>>>>, <<<<2>>>>, <<<<3, 1>>>>}
    /\ op_successors \in OperatorTables
    /\ rule_params \in RuleParamTables
    /\ (heuristic_name # "policy_guided" \/ user_supplied_demos) =>
          /\ max_rule_params = 2
          /\ gbfs_max_expansions = MaxBudget
          /\ initial_policy_strs = <<>>
          /\ op_successors[1][1] = <<2, 3>>
          /\ rule_params[3][2] = 1
    /\ search_method # "gbfs" => gbfs_max_expansions = MaxBudget
    /\ trajectory_generator = ""
    /\ heuristic_cls = ""
    /\ best_ldl = 0
    /\ initial_states = <<>>
    /\ heur = <<>>
    /\ succ = <<>>
    /\ goal_of = <<>>
    /\ cost_values = {1}
    /\ pc = "ps_configure"
    /\ nodes = <<>>
    /\ idx = 1
    /\ ret = NoResult
    /\ SearchUnused
    /\ HillClimbingUnused
    /\ PolicyGuidedUnused
    /\ GroundingUnused
    /\ ApplyUnused

NextPolicySearch ==
    \/ Configure
    \/ Dispatch
    \/ PushRoot
    \/ Pop
    \/ Successor
    \/ HCRoot
    \/ HCStep
    \/ HCChild
    \/ HCDepthEnd
    \/ HCStepEnd
    \/ ReturnBest

SpecPolicySearch == InitPolicySearch /\ [][NextPolicySearch]_vars


(***************************************************************************)
(* Properties of _run_policy_search.                                       *)
(***************************************************************************)
\* C11: with search_method "gbfs" the search performs at most
\* gbfs_max_expansions expansions, and the policy _run_policy_search
\* returns is one the heuristic was evaluated on whose score is the minimum
\* of the scores of all policies it was evaluated on (the initial policies
\* and every successor that was pushed).
C11_GbfsReturnsBestScored ==
    search_method = "gbfs" =>
        /\ num_expansions <= gbfs_max_expansions
        /\ pc = "ps_returned" =>
              /\ \E i \in DOMAIN nodes : nodes[i].state = best_ldl
              /\ \A i \in DOMAIN nodes :
                    heur[best_ldl] <= heur[nodes[i].state]

\* The budget of expansions is used up with nodes left on the queue, and
\* the returned policy is a successor that scores below an initial policy.
C11_Witness ==
    /\ search_method = "gbfs"
    /\ pc = "ps_returned"
    /\ num_expansions = gbfs_max_expansions
    /\ queue # {}
    /\ \A i \in DOMAIN initial_states : initial_states[i] # best_ldl
    /\ \E i \in DOMAIN initial_states :
          heur[initial_states[i]] > heur[best_ldl]


\* The largest number of parameters of a rule of the policy, 0 without rules.
max_params_of(pol) ==
    IF rule_params[pol] = <<>> THEN 0
    ELSE CHOOSE n \in Range(rule_params[pol]) :
            \A k \in Range(rule_params[pol]) : k <= n

\* C12: of every policy the search engine expands, every successor that
\* get_successors yields has no rule with more than max_rule_params
\* parameters, is the child number i of an edit operator under the action
\* (operator, i) and has cost 1, and every child of an edit operator whose
\* rules are within the bound is yielded.
C12_YieldsChildrenWithinBound ==
    pc \in {"expand", "hc_children"} =>
        LET pol == IF pc = "expand" THEN nodes[node].state
                   ELSE nodes[cur_node].state
            yielded == get_successors(pol)
        IN  /\ \A k \in DOMAIN yielded :
                  /\ max_params_of(yielded[k].child) <= max_rule_params
                  /\ yielded[k].cost = 1
                  /\ \E op \in DOMAIN SearchOperators :
                     \E i \in DOMAIN op_successors[pol][op] :
                        /\ yielded[k].action = <<SearchOperators[op], i - 1>>
                        /\ yielded[k].child = op_successors[pol][op][i]
            /\ \A op \in DOMAIN SearchOperators :
               \A i \in DOMAIN op_successors[pol][op] :
                  max_params_of(op_successors[pol][op][i]) <= max_rule_params
                      => \E k \in DOMAIN yielded :
                            /\ yielded[k].action
                                   = <<SearchOperators[op], i - 1>>
                            /\ yielded[k].child = op_successors[pol][op][i]

\* An expanded policy with a child that is filtered out, a child with a
\* rule of exactly max_rule_params parameters that is yielded, and the
\* children of both operators among the yielded ones.
C12_Witness ==
    /\ pc = "expand"
    /\ LET pol == nodes[node].state
           yielded == get_successors(pol)
       IN  /\ \E op \in DOMAIN SearchOperators :
              \E i \in DOMAIN op_successors[pol][op] :
                 max_params_of(op_successors[pol][op][i]) > max_rule_params
           /\ \E k \in DOMAIN yielded :
                 max_params_of(yielded[k].child) = max_rule_params
           /\ \A op \in DOMAIN SearchOperators :
              \E k \in DOMAIN yielded :
                 yielded[k].action[1] = SearchOperators[op]


\* C13: a call of _run_policy_search with a search_method or a
\* heuristic_name that is not recognized evaluates no heuristic, expands
\* nothing and returns no policy, and for a heuristic_name that is not
\* recognized no trajectory generator and no heuristic is created in place
\* of the one that was asked for.
C13_UnknownNamesFailFast ==
    /\ (search_method \notin SearchMethods
            \/ heuristic_name \notin DOMAIN heuristic_name_to_cls) =>
          /\ pc \in {"ps_configure", "ps_dispatch", "KeyError",
                     "NotImplementedError"}
          /\ nodes = <<>>
          /\ heur = <<>>
          /\ num_evals = 0
          /\ num_expansions = 0
          /\ best_ldl = 0
    /\ heuristic_name \notin DOMAIN heuristic_name_to_cls =>
          /\ trajectory_generator = ""
          /\ heuristic_cls = ""


(***************************************************************************)
(* Runs of _run_heuristic_search and of run_hill_climbing that start from  *)
(* several initial states.                                                  *)
(***************************************************************************)
InitRoots ==
    /\ initial_states \in {<<1, 2>>, <<2, 1, 3>>}
    /\ heur = <<>>
    /\ succ = <<>>
    /\ goal_of = <<>>
    /\ pc \in {"roots", "hc_roots"}
    /\ IF pc = "roots"
       THEN /\ initial_states = <<1, 2>>
            /\ algo \in {"gbfs", "astar"}
            /\ lazy_expansion \in BOOLEAN
            /\ max_expansions \in {MaxBudget, Inf}
            /\ max_evals = Inf
            /\ timeout = "never"
            /\ cost_values = {0, 1}
            /\ SearchStart
            /\ HillClimbingUnused
       ELSE /\ early_termination_heuristic_thresh \in Thresholds
            /\ enforced_depth \in 0..MaxDepth
            /\ parallelize \in BOOLEAN
            /\ sequential_result = <<>>
            /\ cost_values = {1}
            /\ HillClimbingStart
            /\ SearchUnused
    /\ PolicyGuidedUnused
    /\ GroundingUnused
    /\ PolicySearchUnused
    /\ ApplyUnused

NextRoots ==
    \/ PushRoot
    \/ Pop
    \/ Successor
    \/ HCRoot
    \/ HCStep
    \/ HCChild
    \/ HCDepthEnd
    \/ HCStepEnd

SpecRoots == InitRoots /\ [][NextRoots]_vars

\* The position of the initial state of lowest heuristic, the first such
\* position on ties.  A root has cumulative cost 0, so its priority is its
\* heuristic under gbfs and under astar.
first_lowest_initial ==
    CHOOSE i \in DOMAIN initial_states :
        \A j \in DOMAIN initial_states :
            \/ heur[initial_states[i]] < heur[initial_states[j]]
            \/ heur[initial_states[i]] = heur[initial_states[j]] /\ i <= j

\* C14 as stated: with several initial states the path returned by
\* _run_heuristic_search and the path returned by run_hill_climbing start at
\* the initial state of lowest priority, the first such state on ties.
C14_PathStartsAtBestInitialState ==
    pc \in {"returned_goal", "returned_best", "hc_returned"} =>
        ret.states[1] = initial_states[first_lowest_initial]

\* C14, amended: the path returned by run_hill_climbing starts at the
\* initial state of lowest heuristic, the first such state on ties; the
\* path returned by _run_heuristic_search starts at one of the initial
\* states, and it is the initial state of lowest priority (the first on
\* ties) when the search returns a path of one state because no goal was
\* popped and no child had a priority below every root's.
C14_PathStartsAtAnInitialState ==
    /\ pc = "hc_returned" =>
          ret.states[1] = initial_states[first_lowest_initial]
    /\ pc \in {"returned_goal", "returned_best"} =>
          /\ \E i \in DOMAIN initial_states : ret.states[1] = initial_states[i]
          /\ (pc = "returned_best" /\ Len(ret.states) = 1) =>
                ret.states[1] = initial_states[first_lowest_initial]

\* Hill climbing returned a path of several states that starts at an
\* initial state that is not the first one.
C14_Witness ==
    /\ pc = "hc_returned"
    /\ Len(ret.states) >= 2
    /\ first_lowest_initial >= 2


(***************************************************************************)
(* apply_operator (utils.py).  Python sets are objects: set_objects holds  *)
(* the elements of each set object, and a name such as new_atoms refers to *)
(* one of them.  The effects of the operator are sets, which a for loop    *)
(* visits in no particular order.                                          *)
(***************************************************************************)
ApplyAtoms ==
    {GroundAtom("ontable", <<"a">>), GroundAtom("holding", <<"a">>),
     GroundAtom("ontable", <<"b">>)}

\* Line 409 for a mutated assignment, new_atoms = atoms: no new object.
the_atoms_themselves == "atoms"

\* Line 409: set(atoms) is a new set object.
copy_of_atoms == "set(atoms)"

\* Line 409.
ApplyCopy ==
    /\ apply_pc = "start"
    /\ new_atoms' = copy_of_atoms
    /\ set_objects' = IF copy_of_atoms \in DOMAIN set_objects
                      THEN set_objects
                      ELSE set_objects
                               @@ (copy_of_atoms :> set_objects["atoms"])
    /\ effects_left' = ground_op.delete_effects
    /\ apply_pc' = "delete"
    /\ UNCHANGED ground_op
    /\ UNCHANGED <<searchCfg, searchFns, searchSt, hcCfg, hcSt, pgVars,
                   groundVars, psVars>>

\* Lines 410-411: one iteration of the loop over op.delete_effects, or its
\* end.
ApplyDiscard ==
    /\ apply_pc = "delete"
    /\ IF effects_left = {}
       THEN /\ effects_left' = ground_op.add_effects
            /\ apply_pc' = "add"
            /\ UNCHANGED set_objects
       ELSE \E atom \in effects_left :
              /\ set_objects' = [set_objects EXCEPT ![new_atoms] = @ \ {atom}]
              /\ effects_left' = effects_left \ {atom}
              /\ UNCHANGED apply_pc
    /\ UNCHANGED <<ground_op, new_atoms>>
    /\ UNCHANGED <<searchCfg, searchFns, searchSt, hcCfg, hcSt, pgVars,
                   groundVars, psVars>>

\* Lines 412-414: one iteration of the loop over op.add_effects, or the
\* return of new_atoms.
ApplyAdd ==
    /\ apply_pc = "add"
    /\ IF effects_left = {}
       THEN /\ apply_pc' = "returned"
            /\ UNCHANGED <<set_objects, effects_left>>
       ELSE \E atom \in effects_left :
              /\ set_objects' =
                     [set_objects EXCEPT ![new_atoms] = @ \cup {atom}]
              /\ effects_left' = effects_left \ {atom}
              /\ UNCHANGED apply_pc
    /\ UNCHANGED <<ground_op, new_atoms>>
    /\ UNCHANGED <<searchCfg, searchFns, searchSt, hcCfg, hcSt, pgVars,
                   groundVars, psVars>>

InitApply ==
    /\ \E d \in SUBSET ApplyAtoms : \E a \in SUBSET ApplyAtoms :
          ground_op = [delete_effects |-> d, add_effects |-> a]
    /\ \E ats \in SUBSET ApplyAtoms : set_objects = ("atoms" :> ats)
    /\ new_atoms = ""
    /\ effects_left = {}
    /\ apply_pc = "start"
    /\ SearchesUnused
    /\ GroundingUnused

NextApply == ApplyCopy \/ ApplyDiscard \/ ApplyAdd

SpecApply == InitApply /\ [][NextApply]_vars

\* The set that apply_operator returned.
returned_atoms == set_objects[new_atoms]

\* C30: apply_operator returns the set (atoms minus the delete effects of
\* the operator) union its add effects, so that an atom that is both a
\* delete effect and an add effect is in the result, and it leaves the set
\* of atoms passed in unchanged.
C30_DeleteThenAdd ==
    /\ [](apply_pc = "returned" =>
            /\ returned_atoms
                   = (set_objects["atoms"] \ ground_op.delete_effects)
                         \cup ground_op.add_effects
            /\ \A atom \in ground_op.delete_effects
                               \cap ground_op.add_effects :
                   atom \in returned_atoms)
    /\ [][set_objects'["atoms"] = set_objects["atoms"]]_vars

\* A call has returned for an operator with an atom that is a delete and an
\* add effect and was in the atoms, and another atom that it deleted and one
\* that it added.
C30_Witness ==
    /\ apply_pc = "returned"
    /\ \E atom \in ground_op.delete_effects \cap ground_op.add_effects :
          atom \in set_objects["atoms"] /\ atom \in returned_atoms
    /\ \E atom \in ground_op.delete_effects \ ground_op.add_effects :
          atom \in set_objects["atoms"] /\ atom \notin returned_atoms
    /\ \E atom \in ground_op.add_effects \ ground_op.delete_effects :
          atom \notin set_objects["atoms"] /\ atom \in returned_atoms

=============================================================================
